---------------------------- MODULE Spec2Model ----------------------------
(***************************************************************************)
(* Model of the issue-merge lifecycle of rad-qa-issue-analysis:            *)
(* src/merge_utils.py (MergeValidator, MergeAuditor, MergeExecutor) and    *)
(* the merge analysis of src/llm_utils.py (analyze_issues_for_merge).      *)
(*                                                                         *)
(* The issue table (a pandas DataFrame) is a sequence of rows; a row is a  *)
(* function from column name to cell value.  pd.NA / NaN is the value NA.  *)
(* The audit file is absent or holds a sequence of lines of JSON text.     *)
(* Confidence values are in hundredths (85 stands for 0.85).               *)
(***************************************************************************)
EXTENDS Integers, Sequences, FiniteSets, TLC

\* df:         the session's issue table (st.session_state.df)
\* audit_file: merge_audit.jsonl, [exists, lines]
\* clock:      the number of lines log_merge has written; stamps the lines
\* ret:        what the last call did: [op, outcome, merge_action, applied,
\*             value]; applied is the suggestion a successful merge removed
\*             from the session's list of suggestions, value is what
\*             get_merge_history or clear_cache returned
\* call:       the frame of the analyze_issues_for_merge call in progress or
\*             last returned: [pc, standards, processed_issues,
\*             all_merge_suggestions, requests, errors]; requests are the
\*             oracle calls made, errors the standards whose processing
\*             printed an error
\* merge_suggestions: st.session_state.merge_suggestions
VARIABLES df, audit_file, clock, ret, call, merge_suggestions

vars == <<df, audit_file, clock, ret, call, merge_suggestions>>

(***************************************************************************)
(* Bound of the model: the number of merges logged in one session.         *)
(***************************************************************************)
MaxMerges == 2

(***************************************************************************)
(* Values.                                                                 *)
(***************************************************************************)
NA == "<NA>"
None == [none |-> TRUE]

\* The issue ids of the table, in row order, and the digit of each row.
IdName == <<"I1", "I2", "I3">>
Digit == <<"1", "2", "3">>
IssueIds == {IdName[i] : i \in 1..Len(IdName)}

\* A merge group names at most as many ids as the table has rows.
MaxGroupLen == Len(IdName)
MissingIds == {"I9"}
Standards == {"A", "B"}
Confidences == {90}
Rationales == {"same root cause"}

\* The sequences over S of length at most n.
SeqsUpTo(S, n) == UNION {[1..k -> S] : k \in 0..n}

Groups == SeqsUpTo(IssueIds \cup MissingIds, MaxGroupLen)

(***************************************************************************)
(* List helpers (Python list / pandas Series semantics).                   *)
(***************************************************************************)
Contains(seq, x) == \E i \in 1..Len(seq) : seq[i] = x

\* ', '.join(seq)
RECURSIVE Join(_)
Join(seq) ==
    IF seq = <<>> THEN ""
    ELSE IF Len(seq) = 1 THEN seq[1]
    ELSE seq[1] \o ", " \o Join(Tail(seq))

\* Series.unique() / list(dict.fromkeys(seq)): first occurrences, in order.
RECURSIVE Unique(_)
Unique(seq) ==
    IF seq = <<>> THEN <<>>
    ELSE LET init == Unique(SubSeq(seq, 1, Len(seq) - 1))
             last == seq[Len(seq)]
         IN  IF Contains(init, last) THEN init ELSE Append(init, last)

\* json.dumps of a list of strings.
RECURSIVE JsonItems(_)
JsonItems(seq) ==
    IF seq = <<>> THEN ""
    ELSE IF Len(seq) = 1 THEN "\"" \o seq[1] \o "\""
    ELSE "\"" \o seq[1] \o "\", " \o JsonItems(Tail(seq))

json_dumps(seq) == "[" \o JsonItems(seq) \o "]"

\* df[col].tolist()
ToList(d, col) == [i \in 1..Len(d) |-> d[i][col]]

\* Variant: the assignment is made without the row mask.
SetLoc_every_row(d, id, col, value) ==
    [i \in 1..Len(d) |-> [d[i] EXCEPT ![col] = value]]

\* df.loc[df["Issue ID"] == id, col] = value
SetLoc(d, id, col, value) ==
    [i \in 1..Len(d) |->
        IF d[i]["Issue ID"] = id THEN [d[i] EXCEPT ![col] = value] ELSE d[i]]

(***************************************************************************)
(* MergeValidator.validate_merge_group                                     *)
(***************************************************************************)
\* Variant: the already-merged check is missing.
validate_merge_group_no_merged_check(d, issues) ==
    LET existing_issues == ToList(d, "Issue ID")
        missing_issues ==
            SelectSeq(issues, LAMBDA issue : ~Contains(existing_issues, issue))
        merged_issues ==
            ToList(SelectSeq(d, LAMBDA r : r["Status"] = "Merged"), "Issue ID")
        already_merged ==
            SelectSeq(issues, LAMBDA issue : Contains(merged_issues, issue))
        standards ==
            Unique(ToList(SelectSeq(d, LAMBDA r : Contains(issues, r["Issue ID"])),
                          "Linked Standard"))
    IN  IF Len(issues) < 2
          THEN <<FALSE, "Need at least 2 issues to merge">>
        ELSE IF missing_issues # <<>>
          THEN <<FALSE, "Issues not found: " \o Join(missing_issues)>>
        ELSE IF Len(standards) > 1
          THEN <<FALSE, "Issues have different standards: " \o Join(standards)>>
        ELSE <<TRUE, "">>

\* Variant: the single-standard check is missing.
validate_merge_group_any_standard(d, issues) ==
    LET existing_issues == ToList(d, "Issue ID")
        missing_issues ==
            SelectSeq(issues, LAMBDA issue : ~Contains(existing_issues, issue))
        merged_issues ==
            ToList(SelectSeq(d, LAMBDA r : r["Status"] = "Merged"), "Issue ID")
        already_merged ==
            SelectSeq(issues, LAMBDA issue : Contains(merged_issues, issue))
        standards ==
            Unique(ToList(SelectSeq(d, LAMBDA r : Contains(issues, r["Issue ID"])),
                          "Linked Standard"))
    IN  IF Len(issues) < 2
          THEN <<FALSE, "Need at least 2 issues to merge">>
        ELSE IF missing_issues # <<>>
          THEN <<FALSE, "Issues not found: " \o Join(missing_issues)>>
        ELSE IF already_merged # <<>>
          THEN <<FALSE, "Issues already merged: " \o Join(already_merged)>>
        ELSE <<TRUE, "">>

\* Variant: the already-merged check runs before the existence check.
validate_merge_group_merged_first(d, issues) ==
    LET existing_issues == ToList(d, "Issue ID")
        missing_issues ==
            SelectSeq(issues, LAMBDA issue : ~Contains(existing_issues, issue))
        merged_issues ==
            ToList(SelectSeq(d, LAMBDA r : r["Status"] = "Merged"), "Issue ID")
        already_merged ==
            SelectSeq(issues, LAMBDA issue : Contains(merged_issues, issue))
        standards ==
            Unique(ToList(SelectSeq(d, LAMBDA r : Contains(issues, r["Issue ID"])),
                          "Linked Standard"))
    IN  IF Len(issues) < 2
          THEN <<FALSE, "Need at least 2 issues to merge">>
        ELSE IF already_merged # <<>>
          THEN <<FALSE, "Issues already merged: " \o Join(already_merged)>>
        ELSE IF missing_issues # <<>>
          THEN <<FALSE, "Issues not found: " \o Join(missing_issues)>>
        ELSE IF Len(standards) > 1
          THEN <<FALSE, "Issues have different standards: " \o Join(standards)>>
        ELSE <<TRUE, "">>

\* Variant: the already-merged check looks at the secondaries only.
validate_merge_group_secondaries_only(d, issues) ==
    LET existing_issues == ToList(d, "Issue ID")
        missing_issues ==
            SelectSeq(issues, LAMBDA issue : ~Contains(existing_issues, issue))
        merged_issues ==
            ToList(SelectSeq(d, LAMBDA r : r["Status"] = "Merged"), "Issue ID")
        already_merged ==
            SelectSeq(Tail(issues), LAMBDA issue : Contains(merged_issues, issue))
        standards ==
            Unique(ToList(SelectSeq(d, LAMBDA r : Contains(issues, r["Issue ID"])),
                          "Linked Standard"))
    IN  IF Len(issues) < 2
          THEN <<FALSE, "Need at least 2 issues to merge">>
        ELSE IF missing_issues # <<>>
          THEN <<FALSE, "Issues not found: " \o Join(missing_issues)>>
        ELSE IF already_merged # <<>>
          THEN <<FALSE, "Issues already merged: " \o Join(already_merged)>>
        ELSE IF Len(standards) > 1
          THEN <<FALSE, "Issues have different standards: " \o Join(standards)>>
        ELSE <<TRUE, "">>

validate_merge_group(d, issues) ==
    LET existing_issues == ToList(d, "Issue ID")
        missing_issues ==
            SelectSeq(issues, LAMBDA issue : ~Contains(existing_issues, issue))
        merged_issues ==
            ToList(SelectSeq(d, LAMBDA r : r["Status"] = "Merged"), "Issue ID")
        already_merged ==
            SelectSeq(issues, LAMBDA issue : Contains(merged_issues, issue))
        standards ==
            Unique(ToList(SelectSeq(d, LAMBDA r : Contains(issues, r["Issue ID"])),
                          "Linked Standard"))
    IN  IF Len(issues) < 2
          THEN <<FALSE, "Need at least 2 issues to merge">>
        ELSE IF missing_issues # <<>>
          THEN <<FALSE, "Issues not found: " \o Join(missing_issues)>>
        ELSE IF already_merged # <<>>
          THEN <<FALSE, "Issues already merged: " \o Join(already_merged)>>
        ELSE IF Len(standards) > 1
          THEN <<FALSE, "Issues have different standards: " \o Join(standards)>>
        ELSE <<TRUE, "">>

(***************************************************************************)
(* MergeAuditor                                                            *)
(***************************************************************************)
\* The line log_merge appends: timestamp, the constant action, and the
\* merge action's own keys.
audit_entry(merge_action, now) ==
    [timestamp |-> now,
     action |-> "merge",
     primary_issue |-> merge_action.primary_issue,
     secondary_issues |-> merge_action.secondary_issues,
     confidence |-> merge_action.confidence,
     rationale |-> merge_action.rationale]

DigitChar == <<"0", "1", "2", "3", "4", "5", "6", "7", "8", "9">>

\* The text of datetime.now().isoformat() at the now-th write.
IsoFormat(now) == "T" \o DigitChar[now + 1]

\* The text json.dumps gives a confidence c/100 between 0.0 and 1.0.
FloatText(c) ==
    IF c = 100 THEN "1.0"
    ELSE "0." \o DigitChar[(c \div 10) + 1] \o
         (IF c % 10 = 0 THEN "" ELSE DigitChar[(c % 10) + 1])

\* json.dumps(entry): the keys in insertion order.
json_dumps_entry(entry) ==
    "{\"timestamp\": \"" \o IsoFormat(entry.timestamp) \o
    "\", \"action\": \"" \o entry.action \o
    "\", \"primary_issue\": \"" \o entry.primary_issue \o
    "\", \"secondary_issues\": " \o json_dumps(entry.secondary_issues) \o
    ", \"confidence\": " \o FloatText(entry.confidence) \o
    ", \"rationale\": \"" \o entry.rationale \o "\"}"

\* The entries a session can log, and the object each logged line decodes
\* to: json.loads inverts json.dumps on them.
LoggableEntries ==
    {audit_entry([primary_issue |-> p, secondary_issues |-> s,
                  confidence |-> c, rationale |-> r], now) :
        p \in IssueIds,
        s \in SeqsUpTo(IssueIds, MaxGroupLen - 1) \ {<<>>},
        c \in Confidences, r \in Rationales, now \in 1..MaxMerges}

Decoded ==
    [line \in {json_dumps_entry(e) : e \in LoggableEntries} |->
        CHOOSE e \in LoggableEntries : json_dumps_entry(e) = line]

JSONDecodeError == [raised |-> "JSONDecodeError"]

json_loads(line) ==
    IF line \in DOMAIN Decoded THEN Decoded[line] ELSE JSONDecodeError

\* Variant: the new line is put before the lines already in the file.
log_merge_prepending(file, merge_action, now) ==
    [exists |-> TRUE,
     lines |-> <<json_dumps_entry(audit_entry(merge_action, now))>> \o file.lines]

\* Variant: the file is opened for writing, not for appending.
log_merge_truncating(file, merge_action, now) ==
    [exists |-> TRUE,
     lines |-> <<json_dumps_entry(audit_entry(merge_action, now))>>]

\* open(audit_file, "a") creates the file when it is absent.
log_merge(file, merge_action, now) ==
    [exists |-> TRUE,
     lines |-> Append(file.lines,
                      json_dumps_entry(audit_entry(merge_action, now)))]

RECURSIVE Reverse(_)
Reverse(seq) ==
    IF seq = <<>> THEN <<>> ELSE Append(Reverse(Tail(seq)), seq[1])

\* Variant: the newest entry comes first and use_cache is ignored.
get_merge_history_newest_first(file, use_cache) ==
    IF ~file.exists THEN <<>>
    ELSE Reverse([k \in 1..Len(file.lines) |-> json_loads(file.lines[k])])

\* Variant: a line that does not parse is passed over.
get_merge_history_raises_never(file, use_cache) == FALSE

\* json.loads raises on a line that is not JSON; only FileNotFoundError is
\* caught, so the error leaves get_merge_history.
get_merge_history_raises(file, use_cache) ==
    /\ use_cache
    /\ file.exists
    /\ \E k \in 1..Len(file.lines) : json_loads(file.lines[k]) = JSONDecodeError

\* [json.loads(line) for line in f]; a missing file gives [].
get_merge_history(file, use_cache) ==
    IF ~use_cache THEN <<>>
    ELSE IF ~file.exists THEN <<>>
    ELSE [k \in 1..Len(file.lines) |-> json_loads(file.lines[k])]

\* Variant: a record counts as unmerged when its Merged IDs cell is empty.
get_unmerged_issues_count_merged_ids_only(d) ==
    Len(SelectSeq(d, LAMBDA r : r["Merged IDs"] = NA))

\* len(df[pd.isna(Status) & pd.isna(Merged With Issue ID) & pd.isna(Merged IDs)])
get_unmerged_issues_count(d) ==
    Len(SelectSeq(d, LAMBDA r : /\ r["Status"] = NA
                                /\ r["Merged With Issue ID"] = NA
                                /\ r["Merged IDs"] = NA))

\* Variant: a failed removal is reported like a successful one.
clear_cache_always_true(file, remove_raises) ==
    IF file.exists
      THEN IF remove_raises
             THEN [file |-> file, result |-> TRUE]
             ELSE [file |-> [exists |-> FALSE, lines |-> <<>>], result |-> TRUE]
      ELSE [file |-> file, result |-> FALSE]

\* os.path.exists / os.remove / return True; return False when the file is
\* absent and when os.remove raises (except Exception).
clear_cache(file, remove_raises) ==
    IF file.exists
      THEN IF remove_raises
             THEN [file |-> file, result |-> FALSE]
             ELSE [file |-> [exists |-> FALSE, lines |-> <<>>], result |-> TRUE]
      ELSE [file |-> file, result |-> FALSE]

(***************************************************************************)
(* MergeExecutor                                                           *)
(***************************************************************************)
\* str(v).strip() is empty
IsBlank(v) == v \in {"", " "}

\* ASCII stand-in for the bullet glyph of the source.
Bullet == "* "

RECURSIVE JoinWith(_, _, _)
JoinWith(seq, prefix, sep) ==
    IF seq = <<>> THEN ""
    ELSE IF Len(seq) = 1 THEN prefix \o seq[1]
    ELSE prefix \o seq[1] \o sep \o JoinWith(Tail(seq), prefix, sep)

RECURSIVE MaxOf(_)
MaxOf(seq) ==
    IF Len(seq) = 1 THEN seq[1]
    ELSE LET m == MaxOf(Tail(seq)) IN IF seq[1] >= m THEN seq[1] ELSE m

\* float(v) of the texts that read as numbers; any other text raises.
float == "2" :> 2 @@ "3" :> 3

ValueError == [raised |-> "ValueError"]

combine_field_values_keeps_duplicates(values, field) ==
    LET kept == SelectSeq(values, LAMBDA v : v # NA /\ ~IsBlank(v))
    IN  IF kept = <<>> THEN ""
        ELSE IF field = "Final Weighted Score (1-3)"
          THEN IF \A k \in 1..Len(kept) : kept[k] \in DOMAIN float
                 THEN MaxOf([k \in 1..Len(kept) |-> float[kept[k]]])
                 ELSE ValueError
        ELSE IF field = "Failure Rationale" THEN JoinWith(kept, Bullet, "\n")
        ELSE IF field = "Investigation Notes"
          THEN JoinWith(kept, "[Previous Note] ", "\n\n")
        ELSE kept[1]

combine_field_values(values, field) ==
    LET kept == Unique(SelectSeq(values, LAMBDA v : v # NA /\ ~IsBlank(v)))
    IN  IF kept = <<>> THEN ""
        ELSE IF field = "Final Weighted Score (1-3)"
          THEN IF \A k \in 1..Len(kept) : kept[k] \in DOMAIN float
                 THEN MaxOf([k \in 1..Len(kept) |-> float[kept[k]]])
                 ELSE ValueError
        ELSE IF field = "Failure Rationale" THEN JoinWith(kept, Bullet, "\n")
        ELSE IF field = "Investigation Notes"
          THEN JoinWith(kept, "[Previous Note] ", "\n\n")
        ELSE kept[1]

CombineFields == <<"Input Prompt", "Failure Rationale">>

\* Variant: the operator's selection is ignored.
WorkingIssues_ignores_selection(merge_suggestion) == merge_suggestion["issues"]

\* merge_suggestion.get("selected_issues", merge_suggestion["issues"])
WorkingIssues(merge_suggestion) ==
    IF "selected_issues" \in DOMAIN merge_suggestion
      THEN merge_suggestion["selected_issues"]
      ELSE merge_suggestion["issues"]

\* for issue_id in secondary_issues: Status = "Merged"; Merged With = primary
RECURSIVE UpdateSecondaries(_, _, _)
UpdateSecondaries(d, secondary_issues, primary_issue) ==
    IF secondary_issues = <<>> THEN d
    ELSE UpdateSecondaries(
            SetLoc(SetLoc(d, secondary_issues[1], "Status", "Merged"),
                   secondary_issues[1], "Merged With Issue ID", primary_issue),
            Tail(secondary_issues), primary_issue)

\* Variant: the primary's Merged IDs cell is never written.
MergedTable_no_merged_ids(d, issues) ==
    LET primary_issue == issues[1]
        secondary_issues == Tail(issues)
        d1 == SetLoc(d, primary_issue, "Status", "Primary")
    IN  UpdateSecondaries(d1, secondary_issues, primary_issue)

\* The table execute_merge builds on its copy once validation has passed.
MergedTable(d, issues) ==
    LET primary_issue == issues[1]
        secondary_issues == Tail(issues)
        d1 == SetLoc(d, primary_issue, "Status", "Primary")
        members == SelectSeq(d1, LAMBDA r : Contains(issues, r["Issue ID"]))
        combined_values ==
            [k \in 1..Len(CombineFields) |->
                combine_field_values(ToList(members, CombineFields[k]),
                                     CombineFields[k])]
        d2 == SetLoc(SetLoc(d1, primary_issue, CombineFields[1], combined_values[1]),
                     primary_issue, CombineFields[2], combined_values[2])
        d3 == SetLoc(d2, primary_issue, "Merged IDs", json_dumps(secondary_issues))
    IN  UpdateSecondaries(d3, secondary_issues, primary_issue)

\* Variant: the primary is marked before the group is validated.
execute_merge_marks_first(d, merge_suggestion) ==
    LET issues == WorkingIssues(merge_suggestion)
        v == validate_merge_group(d, issues)
        marked == IF issues = <<>> THEN d
                  ELSE SetLoc(d, issues[1], "Status", "Primary")
    IN  IF ~v[1]
          THEN [df |-> marked, merge_action |-> None, error |-> v[2]]
          ELSE [df |-> MergedTable(d, issues),
                merge_action |->
                    [primary_issue |-> issues[1],
                     secondary_issues |-> Tail(issues),
                     confidence |-> merge_suggestion["confidence"],
                     rationale |-> merge_suggestion["rationale"]],
                error |-> ""]

\* The value execute_merge returns, and the error it prints on rejection.
execute_merge(d, merge_suggestion) ==
    LET issues == WorkingIssues(merge_suggestion)
        v == validate_merge_group(d, issues)
    IN  IF ~v[1]
          THEN [df |-> d, merge_action |-> None, error |-> v[2]]
          ELSE [df |-> MergedTable(d, issues),
                merge_action |->
                    [primary_issue |-> issues[1],
                     secondary_issues |-> Tail(issues),
                     confidence |-> merge_suggestion["confidence"],
                     rationale |-> merge_suggestion["rationale"]],
                error |-> ""]

(***************************************************************************)
(* Inputs.                                                                 *)
(***************************************************************************)
Suggestion(g, c, r) == ("issues" :> g) @@ ("confidence" :> c) @@ ("rationale" :> r)

\* display_merge_preview: the primary plus the secondaries left ticked.
Selected(g, keep) == <<g[1]>> \o SelectSeq(Tail(g), LAMBDA i : i \in keep)

\* Groups of distinct existing ids: the ones the preview offers for selection.
DistinctGroups ==
    {g \in Groups : /\ g # <<>>
                    /\ \A i \in 1..Len(g) : g[i] \in IssueIds
                    /\ \A i, j \in 1..Len(g) : g[i] = g[j] => i = j}

\* The operator unticks nothing, one secondary, or every secondary.
Keeps == {IssueIds} \cup {IssueIds \ {x} : x \in IssueIds} \cup {{}}

Suggestions ==
    {Suggestion(g, c, r) : g \in Groups, c \in Confidences, r \in Rationales}
    \cup
    {Suggestion(g, c, r) @@ ("selected_issues" :> Selected(g, keep)) :
        g \in DistinctGroups, c \in Confidences, r \in Rationales,
        keep \in Keeps}

(***************************************************************************)
(* Initial tables: unique issue ids, every record Open.                    *)
(***************************************************************************)
Row(id, std, prompt, rationale, score) ==
    ("Issue ID" :> id) @@ ("Linked Standard" :> std) @@
    ("Input Prompt" :> prompt) @@ ("Failure Rationale" :> rationale) @@
    ("Final Weighted Score (1-3)" :> score) @@
    ("Status" :> NA) @@ ("Merged With Issue ID" :> NA) @@ ("Merged IDs" :> NA)

PromptOf(profile, i) ==
    IF profile = 1 THEN "p" \o Digit[i]
    ELSE IF i = 1 THEN NA ELSE "p"

RationaleOf(profile, i) ==
    IF profile = 1 THEN "r" \o Digit[i]
    ELSE IF i = 2 THEN " " ELSE "r"

ScoreOf(i) == 1 + (i % 3)

Profiles == {1, 2}

Table(std, profile) ==
    [i \in 1..Len(IdName) |->
        Row(IdName[i], std[i], PromptOf(profile, i), RationaleOf(profile, i),
            ScoreOf(i))]

\* No analysis has been started.
NoCall ==
    [pc |-> "idle", standards |-> <<>>, processed_issues |-> {},
     all_merge_suggestions |-> <<>>, requests |-> <<>>, errors |-> <<>>]

Init ==
    /\ \E std \in [1..Len(IdName) -> Standards], profile \in Profiles :
          df = Table(std, profile)
    /\ audit_file = [exists |-> FALSE, lines |-> <<>>]
    /\ clock = 0
    /\ ret = [op |-> "init", outcome |-> "none", merge_action |-> None,
              applied |-> None, value |-> None]
    /\ call = NoCall
    /\ merge_suggestions = <<>>

(***************************************************************************)
(* Operations.                                                             *)
(***************************************************************************)
\* execute_merge returns: the caller keeps the returned table; a merge
\* has appended its line to the audit file.
ExecuteMergeReturns(res, merge_suggestion) ==
    /\ df' = res.df
    /\ merge_suggestions' =
          IF res.merge_action # None
            THEN SelectSeq(merge_suggestions, LAMBDA s : s # merge_suggestion)
            ELSE merge_suggestions
    /\ UNCHANGED call
    /\ IF res.merge_action # None
         THEN /\ audit_file' = log_merge(audit_file, res.merge_action, clock + 1)
              /\ clock' = clock + 1
         ELSE UNCHANGED <<audit_file, clock>>
    /\ ret' = [op |-> "execute_merge",
               outcome |-> IF res.merge_action # None THEN "merged" ELSE "rejected",
               merge_action |-> res.merge_action,
               applied |-> IF res.merge_action # None THEN merge_suggestion
                           ELSE None,
               value |-> None]

\* Variant: execute_merge writes into the table it was given.
TableAfterRaise_in_place(d, res) == res.df

\* df = df.copy(): the rows execute_merge has written by the time log_merge
\* raises are rows of its own copy; the table of the caller is as it was.
TableAfterRaise(d, res) == d

\* The append to the audit file raises: the exception leaves execute_merge
\* before its return, nothing is assigned by the caller.
ExecuteMergeLogFails(res) ==
    /\ res.merge_action # None
    /\ df' = TableAfterRaise(df, res)
    /\ ret' = [op |-> "execute_merge", outcome |-> "raised",
               merge_action |-> None, applied |-> None, value |-> None]
    /\ UNCHANGED <<audit_file, clock, call, merge_suggestions>>

\* df, merge_action = executor.execute_merge(df, merge_suggestion)
ExecuteMerge(merge_suggestion) ==
    \E res \in {execute_merge(df, merge_suggestion)} :
        /\ res.merge_action # None => clock < MaxMerges
        /\ \/ ExecuteMergeReturns(res, merge_suggestion)
           \/ ExecuteMergeLogFails(res)

\* history = auditor.get_merge_history(use_cache)
GetMergeHistory(use_cache) ==
    /\ ret' = IF get_merge_history_raises(audit_file, use_cache)
                THEN [op |-> "get_merge_history", outcome |-> "raised",
                      merge_action |-> None, applied |-> None,
                      value |-> [use_cache |-> use_cache, history |-> <<>>]]
                ELSE [op |-> "get_merge_history", outcome |-> "returned",
                      merge_action |-> None, applied |-> None,
                      value |-> [use_cache |-> use_cache,
                                 history |->
                                     get_merge_history(audit_file, use_cache)]]
    /\ UNCHANGED <<df, audit_file, clock, call, merge_suggestions>>

\* auditor.clear_cache(); os.remove succeeds or raises.
ClearCache ==
    \E remove_raises \in BOOLEAN :
        \E res \in {clear_cache(audit_file, remove_raises)} :
            /\ audit_file' = res.file
            /\ ret' = [op |-> "clear_cache", outcome |-> "returned",
                       merge_action |-> None, applied |-> None,
                       value |-> [result |-> res.result]]
            /\ UNCHANGED <<df, clock, call, merge_suggestions>>

\* The merge lifecycle: any sequence of execute_merge calls.
Next ==
    \E s \in Suggestions : ExecuteMerge(s)

Spec == Init /\ [][Next]_vars

\* Merges interleaved with counts of the unmerged records.
GetUnmergedIssuesCount ==
    /\ ret' = [op |-> "get_unmerged_issues_count", outcome |-> "returned",
               merge_action |-> None, applied |-> None,
               value |-> [count |-> get_unmerged_issues_count(df)]]
    /\ UNCHANGED <<df, audit_file, clock, call, merge_suggestions>>

NextCount ==
    \/ \E s \in Suggestions : ExecuteMerge(s)
    \/ GetUnmergedIssuesCount

SpecCount == Init /\ [][NextCount]_vars

\* The audit log: merges of proposed groups of at most two ids, interleaved
\* with reads of the history and with clears.
ShortSuggestions ==
    {s \in Suggestions :
        "selected_issues" \notin DOMAIN s /\ Len(s["issues"]) <= 2}

NextAudit ==
    \/ \E s \in ShortSuggestions : ExecuteMerge(s)
    \/ \E use_cache \in BOOLEAN : GetMergeHistory(use_cache)
    \/ ClearCache

SpecAudit == Init /\ [][NextAudit]_vars

(***************************************************************************)
(* Reading an audit file found on disk: it is missing, or holds lines      *)
(* written by log_merge, lines cut short, and blank lines.                 *)
(***************************************************************************)
MaxLines == 3

WrittenLines ==
    {json_dumps_entry(audit_entry([primary_issue |-> "I1",
                                   secondary_issues |-> <<"I2">>,
                                   confidence |-> c, rationale |-> r], 1)) :
        c \in Confidences, r \in Rationales}
      \cup
    {json_dumps_entry(audit_entry([primary_issue |-> "I3",
                                   secondary_issues |-> <<"I1", "I2">>,
                                   confidence |-> c, rationale |-> r], 2)) :
        c \in Confidences, r \in Rationales}

CorruptLines == {"{\"timestamp\": \"T1\", \"action\": \"mer", ""}

AuditFiles ==
    {[exists |-> FALSE, lines |-> <<>>]}
      \cup {[exists |-> TRUE, lines |-> lines] :
               lines \in SeqsUpTo(WrittenLines \cup CorruptLines, MaxLines)}

InitHistory ==
    /\ df = <<>>
    /\ audit_file \in AuditFiles
    /\ clock = 0
    /\ ret = [op |-> "init", outcome |-> "none", merge_action |-> None,
              applied |-> None, value |-> None]
    /\ call = NoCall
    /\ merge_suggestions = <<>>

NextHistory == \E use_cache \in BOOLEAN : GetMergeHistory(use_cache)

SpecHistory == InitHistory /\ [][NextHistory]_vars

(***************************************************************************)
(* combine_field_values on its own: one call on a list of cell values.     *)
(***************************************************************************)
MaxValues == 3

CombineValues == {"a", "b", "2", "3", "", " ", NA}

CombineFieldNames ==
    {"Input Prompt", "Failure Rationale", "Investigation Notes",
     "Final Weighted Score (1-3)"}

InitCombine ==
    /\ df = <<>>
    /\ audit_file = [exists |-> FALSE, lines |-> <<>>]
    /\ clock = 0
    /\ call = NoCall
    /\ merge_suggestions = <<>>
    /\ \E values \in SeqsUpTo(CombineValues, MaxValues),
          field \in CombineFieldNames :
          ret = [op |-> "combine_field_values", outcome |-> "called",
                 merge_action |-> None, applied |-> None,
                 value |-> [values |-> values, field |-> field]]

CombineFieldValues ==
    /\ ret.op = "combine_field_values"
    /\ ret.outcome = "called"
    /\ ret' = [ret EXCEPT
                 !.outcome = "returned",
                 !.value = [values |-> ret.value.values,
                            field |-> ret.value.field,
                            result |-> combine_field_values(ret.value.values,
                                                            ret.value.field)]]
    /\ UNCHANGED <<df, audit_file, clock, call, merge_suggestions>>

NextCombine == CombineFieldValues

SpecCombine == InitCombine /\ [][NextCombine]_vars

(***************************************************************************)
(* analyze_issues_for_merge (src/llm_utils.py): the oracle is asked once   *)
(* per standard; what it answers is not under the program's control.       *)
(***************************************************************************)
\* Only suggestions of at least this confidence, in hundredths, are kept.
MinConfidence == 80

\* Variant: a record counts as unmerged when its Merged IDs cell is empty.
unmerged_mask_ignores_status(r) == r["Merged IDs"] = NA

\* pd.isna(Status) & pd.isna(Merged With Issue ID) & pd.isna(Merged IDs)
unmerged_mask(r) ==
    r["Status"] = NA /\ r["Merged With Issue ID"] = NA /\ r["Merged IDs"] = NA

open_issues_df(d) == SelectSeq(d, LAMBDA r : unmerged_mask(r))

\* open_issues_df[open_issues_df["Linked Standard"] == standard]
standard_df(d, standard) ==
    SelectSeq(open_issues_df(d), LAMBDA r : r["Linked Standard"] = standard)

\* The object sent for one record (the standards of the model carry no
\* surrounding blanks, so strip() leaves them as they are).
IssuePayload(r) ==
    [issue_id |-> r["Issue ID"],
     input_prompt |-> r["Input Prompt"],
     failure_rationale |-> r["Failure Rationale"],
     linked_standard |-> r["Linked Standard"],
     final_score |-> r["Final Weighted Score (1-3)"]]

\* The records of the standard not yet named by an accepted suggestion.
standard_issues(d, standard, processed_issues) ==
    LET rows == SelectSeq(standard_df(d, standard),
                          LAMBDA r : r["Issue ID"] \notin processed_issues)
    IN  [k \in 1..Len(rows) |-> IssuePayload(rows[k])]

IdSet(issues) == {issues[k] : k \in 1..Len(issues)}

\* Variant: a suggestion of low confidence keeps its ids from later ones.
RECURSIVE filter_suggestions_low_confidence_claims(_, _, _)
filter_suggestions_low_confidence_claims(new_suggestions, valid_suggestions, processed_issues) ==
    IF new_suggestions = <<>>
      THEN [valid_suggestions |-> valid_suggestions,
            processed_issues |-> processed_issues, raised |-> FALSE]
    ELSE LET suggestion == Head(new_suggestions)
         IN  IF "issues" \notin DOMAIN suggestion
               THEN [valid_suggestions |-> valid_suggestions,
                     processed_issues |-> processed_issues, raised |-> TRUE]
             ELSE IF IdSet(suggestion["issues"]) \cap processed_issues # {}
               THEN filter_suggestions_low_confidence_claims(
                        Tail(new_suggestions), valid_suggestions, processed_issues)
             ELSE IF "confidence" \notin DOMAIN suggestion
               THEN [valid_suggestions |-> valid_suggestions,
                     processed_issues |-> processed_issues, raised |-> TRUE]
             ELSE IF suggestion["confidence"] >= MinConfidence
               THEN filter_suggestions_low_confidence_claims(
                        Tail(new_suggestions),
                        Append(valid_suggestions, suggestion),
                        processed_issues \cup IdSet(suggestion["issues"]))
             ELSE filter_suggestions_low_confidence_claims(
                        Tail(new_suggestions), valid_suggestions,
                        processed_issues \cup IdSet(suggestion["issues"]))

\* Variant: ids already claimed do not keep a suggestion out.
RECURSIVE filter_suggestions_no_overlap_check(_, _, _)
filter_suggestions_no_overlap_check(new_suggestions, valid_suggestions, processed_issues) ==
    IF new_suggestions = <<>>
      THEN [valid_suggestions |-> valid_suggestions,
            processed_issues |-> processed_issues, raised |-> FALSE]
    ELSE LET suggestion == Head(new_suggestions)
         IN  IF "issues" \notin DOMAIN suggestion
               THEN [valid_suggestions |-> valid_suggestions,
                     processed_issues |-> processed_issues, raised |-> TRUE]
             ELSE IF "confidence" \notin DOMAIN suggestion
               THEN [valid_suggestions |-> valid_suggestions,
                     processed_issues |-> processed_issues, raised |-> TRUE]
             ELSE IF suggestion["confidence"] >= MinConfidence
               THEN filter_suggestions_no_overlap_check(
                        Tail(new_suggestions),
                        Append(valid_suggestions, suggestion),
                        processed_issues \cup IdSet(suggestion["issues"]))
             ELSE filter_suggestions_no_overlap_check(
                        Tail(new_suggestions), valid_suggestions,
                        processed_issues)

\* The loop over new_suggestions: a suggestion is looked at only if none of
\* its ids is in processed_issues; suggestion["issues"] and
\* suggestion["confidence"] raise KeyError when the key is missing.  The
\* set processed_issues is updated in place, so what it has gained by the
\* time of a KeyError stays in it.
RECURSIVE filter_suggestions(_, _, _)
filter_suggestions(new_suggestions, valid_suggestions, processed_issues) ==
    IF new_suggestions = <<>>
      THEN [valid_suggestions |-> valid_suggestions,
            processed_issues |-> processed_issues, raised |-> FALSE]
    ELSE LET suggestion == Head(new_suggestions)
         IN  IF "issues" \notin DOMAIN suggestion
               THEN [valid_suggestions |-> valid_suggestions,
                     processed_issues |-> processed_issues, raised |-> TRUE]
             ELSE IF IdSet(suggestion["issues"]) \cap processed_issues # {}
               THEN filter_suggestions(Tail(new_suggestions), valid_suggestions,
                                       processed_issues)
             ELSE IF "confidence" \notin DOMAIN suggestion
               THEN [valid_suggestions |-> valid_suggestions,
                     processed_issues |-> processed_issues, raised |-> TRUE]
             ELSE IF suggestion["confidence"] >= MinConfidence
               THEN filter_suggestions(Tail(new_suggestions),
                                       Append(valid_suggestions, suggestion),
                                       processed_issues \cup IdSet(suggestion["issues"]))
             ELSE filter_suggestions(Tail(new_suggestions), valid_suggestions,
                                     processed_issues)

\* Variant: an error ends the loop over the standards.
skip_with_error_aborts(c, kind, processed_issues) ==
    [c EXCEPT !.standards = <<>>,
              !.errors = Append(@, [standard |-> Head(c.standards), kind |-> kind]),
              !.processed_issues = processed_issues]

\* Variant: a standard whose call failed is asked about once more.
skip_with_error_retries_once(c, kind, processed_issues) ==
    [c EXCEPT !.standards =
                  IF \E k \in 1..Len(c.errors) :
                        c.errors[k].standard = Head(c.standards)
                    THEN Tail(@) ELSE @,
              !.errors = Append(@, [standard |-> Head(c.standards), kind |-> kind]),
              !.processed_issues = processed_issues]

\* except ...: print the error; continue
skip_with_error(c, kind, processed_issues) ==
    [c EXCEPT !.standards = Tail(@),
              !.errors = Append(@, [standard |-> Head(c.standards), kind |-> kind]),
              !.processed_issues = processed_issues]

(***************************************************************************)
(* Tables and oracle answers for the analysis.                             *)
(***************************************************************************)
AnalysisIdName == <<"I1", "I2", "I3", "I4">>

AnalysisTable(std) ==
    [i \in 1..Len(AnalysisIdName) |->
        Row(AnalysisIdName[i], std[i], "p" \o DigitChar[i + 1],
            "r" \o DigitChar[i + 1], ScoreOf(i))]

\* Merges a session may have applied before the analysis is started.
EarlierMerges ==
    {<<>>, <<<<"I1", "I2">>>>, <<<<"I4", "I3">>>>,
     <<<<"I1", "I2">>, <<"I4", "I3">>>>}

RECURSIVE AfterMerges(_, _)
AfterMerges(d, groups) ==
    IF groups = <<>> THEN d
    ELSE AfterMerges(
            execute_merge(d, Suggestion(Head(groups), 90, "same root cause")).df,
            Tail(groups))

AnalysisTables ==
    {AfterMerges(AnalysisTable(std), groups) :
        std \in [1..Len(AnalysisIdName) -> Standards], groups \in EarlierMerges}

\* What the oracle may name: ids of the standard asked about, of another
\* standard, twice the same id, an id of no record.
CandidateGroups ==
    {<<"I1", "I2">>, <<"I2", "I3">>, <<"I3", "I4">>, <<"I1", "I1">>,
     <<"I4", "I9">>}

CandidateConfidences == {70, 80}

\* Objects of merge_groups: with all keys, without "confidence", without
\* "issues".
Candidates ==
    {Suggestion(g, c, r) :
        g \in CandidateGroups, c \in CandidateConfidences, r \in Rationales}
    \cup {("issues" :> g) @@ ("rationale" :> r) :
            g \in {<<"I1", "I2">>}, r \in Rationales}
    \cup {("confidence" :> c) @@ ("rationale" :> r) :
            c \in {80}, r \in Rationales}

MaxCandidates == 2

\* merge_suggestions.get("merge_groups", []) of a response that parses.
Responses == SeqsUpTo(Candidates, MaxCandidates)

InitAnalysis ==
    /\ df \in AnalysisTables
    /\ audit_file = [exists |-> FALSE, lines |-> <<>>]
    /\ clock = 0
    /\ ret = [op |-> "init", outcome |-> "none", merge_action |-> None,
              applied |-> None, value |-> None]
    /\ call = NoCall
    /\ merge_suggestions = <<>>

AnalyzeRet ==
    [op |-> "analyze_issues_for_merge", outcome |-> "none",
     merge_action |-> None, applied |-> None, value |-> None]

\* The Analyze button: the call starts; with no unmerged record it returns
\* [] at once.  One analysis is followed from its start to its return.
AnalyzeStart ==
    /\ call.pc = "idle"
    /\ IF open_issues_df(df) = <<>>
         THEN /\ call' = [NoCall EXCEPT !.pc = "returned"]
              /\ merge_suggestions' = <<>>
         ELSE /\ call' = [NoCall EXCEPT
                            !.pc = "loop",
                            !.standards =
                                Unique(ToList(open_issues_df(df), "Linked Standard"))]
              /\ UNCHANGED merge_suggestions
    /\ ret' = AnalyzeRet
    /\ UNCHANGED <<df, audit_file, clock>>

\* The next standard of the loop is asked about.
Asking(standard) ==
    /\ call.pc = "loop"
    /\ call.standards # <<>>
    /\ standard = Head(call.standards)
    /\ Len(standard_df(df, standard)) >= 2
    /\ Len(standard_issues(df, standard, call.processed_issues)) >= 2

\* The call frame once the request for the standard has been sent.
Asked(standard) ==
    [call EXCEPT !.requests =
        Append(@, [standard |-> standard,
                   issues |-> standard_issues(df, standard,
                                              call.processed_issues)])]

\* Fewer than 2 unmerged, or fewer than 2 unprocessed, records: continue.
SkipStandard ==
    /\ call.pc = "loop"
    /\ call.standards # <<>>
    /\ ~Asking(Head(call.standards))
    /\ call' = [call EXCEPT !.standards = Tail(@)]
    /\ ret' = AnalyzeRet
    /\ UNCHANGED <<df, audit_file, clock, merge_suggestions>>

\* client.chat.completions.create raises (transport error, timeout).
OracleRaises ==
    \E standard \in Standards :
        /\ Asking(standard)
        /\ call' = skip_with_error(Asked(standard), "Error processing standard",
                                   call.processed_issues)
        /\ ret' = AnalyzeRet
        /\ UNCHANGED <<df, audit_file, clock, merge_suggestions>>

\* json.loads raises JSONDecodeError on the response text.
OracleUnparsable ==
    \E standard \in Standards :
        /\ Asking(standard)
        /\ call' = skip_with_error(Asked(standard), "Error parsing LLM response",
                                   call.processed_issues)
        /\ ret' = AnalyzeRet
        /\ UNCHANGED <<df, audit_file, clock, merge_suggestions>>

\* The response parses: its suggestions are filtered, and extend the result
\* unless the loop over them raised.
OracleAnswers(new_suggestions) ==
    \E standard \in Standards :
        /\ Asking(standard)
        /\ \E res \in {filter_suggestions(new_suggestions, <<>>,
                                          call.processed_issues)} :
              call' =
                IF res.raised
                  THEN skip_with_error(Asked(standard), "Error processing standard",
                                       res.processed_issues)
                  ELSE [Asked(standard) EXCEPT
                          !.standards = Tail(@),
                          !.processed_issues = res.processed_issues,
                          !.all_merge_suggestions = @ \o res.valid_suggestions]
        /\ ret' = AnalyzeRet
        /\ UNCHANGED <<df, audit_file, clock, merge_suggestions>>

\* return all_merge_suggestions, assigned to the session's suggestions.
AnalyzeReturn ==
    /\ call.pc = "loop"
    /\ call.standards = <<>>
    /\ call' = [call EXCEPT !.pc = "returned"]
    /\ merge_suggestions' = call.all_merge_suggestions
    /\ ret' = AnalyzeRet
    /\ UNCHANGED <<df, audit_file, clock>>

NextAnalysis ==
    \/ AnalyzeStart
    \/ SkipStandard
    \/ OracleRaises
    \/ OracleUnparsable
    \/ \E new_suggestions \in Responses : OracleAnswers(new_suggestions)
    \/ AnalyzeReturn

SpecAnalysis == InitAnalysis /\ [][NextAnalysis]_vars

\* The loop is sequential and each oracle call blocks until it returns or
\* raises: a step of the call that can be taken is eventually taken.
SpecAnalysisFair == SpecAnalysis /\ WF_vars(NextAnalysis)

\* Apply Merge on one of the suggestions the analysis returned, in any
\* order: execute_merge with the full group; an applied suggestion leaves
\* the list.
ApplySuggestion ==
    /\ call.pc = "returned"
    /\ \E k \in 1..Len(merge_suggestions) : ExecuteMerge(merge_suggestions[k])

NextApply == NextAnalysis \/ ApplySuggestion

SpecApply == InitAnalysis /\ [][NextApply]_vars

(***************************************************************************)
(* Analysis and reporting (src/analysis_utils.py, src/report_utils.py):    *)
(* both read the table; the analysis oracle's answer is not under the      *)
(* program's control.                                                      *)
(***************************************************************************)
\* Series.fillna(w), one cell
fillna(v, w) == IF v = NA THEN w ELSE v

\* str.strip(), on the cell values of the model
strip(v) == IF v = " " THEN "" ELSE v

\* (df["Merged With Issue ID"].isna()) | (Status.fillna("").str.strip() == "Merged")
active_mask(r) ==
    \/ r["Merged With Issue ID"] = NA
    \/ strip(fillna(r["Status"], "")) = "Merged"

active_issues(d) == SelectSeq(d, active_mask)

\* (df["Merged With Issue ID"].isna()) | (df["Status"] == "Merged")
report_active_mask(r) ==
    \/ r["Merged With Issue ID"] = NA
    \/ r["Status"] = "Merged"

report_active_issues(d) == SelectSeq(d, report_active_mask)

\* What the prompt text states about the table it is given.
create_analysis_prompt(d) ==
    LET active == active_issues(d)
        merged == SelectSeq(active,
                      LAMBDA r : strip(fillna(r["Status"], "")) = "Merged")
        standards == Unique(ToList(active, "Linked Standard"))
    IN  [total_active |-> Len(active),
         merged_groups |-> Len(merged),
         unmerged_issues |-> Len(active) - Len(merged),
         standards |-> standards,
         issues_by_standard |->
             [k \in 1..Len(standards) |->
                 LET rows == SelectSeq(active,
                         LAMBDA r : r["Linked Standard"] = standards[k])
                 IN  [i \in 1..Len(rows) |->
                         [issue_id |-> rows[i]["Issue ID"],
                          status |-> rows[i]["Status"],
                          is_merged_group |->
                              rows[i]["Status"] # NA
                                /\ strip(rows[i]["Status"]) = "Merged"]]]]

\* Answers of the analysis oracle after json.loads: a dict that may or may
\* not carry "standards_analysis".
AnalysisResults ==
    {[standards_analysis |-> <<>>],
     [standards_analysis |-> <<[standard |-> "A"]>>],
     [standards_analysis |-> <<[standard |-> "B"], [standard |-> "A"]>>],
     [summary |-> [overall_assessment |-> "ok"]]}

ReportRet(op, outcome, value) ==
    [op |-> op, outcome |-> outcome, merge_action |-> None,
     applied |-> None, value |-> value]

\* analyze_qa_issues(df): the prompt is built from the active rows; the
\* oracle call or the parse raises, or the parsed answer is returned.
AnalyzeQaIssues ==
    /\ \E prompt \in {create_analysis_prompt(active_issues(df))} :
          \/ \E analysis_results \in AnalysisResults :
                ret' = ReportRet("analyze_qa_issues", "returned",
                           [active |-> ToList(active_issues(df), "Issue ID"),
                            prompt |-> prompt,
                            analysis_results |-> analysis_results])
          \/ ret' = ReportRet("analyze_qa_issues", "raised",
                        [active |-> ToList(active_issues(df), "Issue ID"),
                         prompt |-> prompt,
                         analysis_results |-> None])
    /\ UNCHANGED <<df, audit_file, clock, call, merge_suggestions>>

Min2(a, b) == IF a <= b THEN a ELSE b

RECURSIVE SumOf(_)
SumOf(seq) == IF seq = <<>> THEN 0 ELSE seq[1] + SumOf(Tail(seq))

\* calculate_priority_score, in tenths; avg_score is sum / count, and a
\* standard without rows has the mean nan, for which min(40, nan) is 40.
calculate_priority_score(issue_count, sum_score, is_merged) ==
    LET count_score == Min2(40, issue_count * 5)
        severity_hundredths ==
            IF issue_count = 0 THEN 4000
            ELSE Min2(4000, (sum_score * 1333) \div issue_count)
        merge_bonus == IF is_merged THEN 20 ELSE 0
    IN  (count_score * 100 + severity_hundredths + merge_bonus * 100 + 5)
            \div 10

\* sorted(..., key=priority_score, reverse=True): stable, highest first
RECURSIVE InsertArea(_, _)
InsertArea(sorted, area) ==
    IF sorted = <<>> THEN <<area>>
    ELSE IF sorted[1].priority_score >= area.priority_score
      THEN <<sorted[1]>> \o InsertArea(Tail(sorted), area)
      ELSE <<area>> \o sorted

RECURSIVE SortAreas(_)
SortAreas(areas) ==
    IF areas = <<>> THEN <<>>
    ELSE InsertArea(SortAreas(SubSeq(areas, 1, Len(areas) - 1)),
                    areas[Len(areas)])

PriorityThreshold == 300

generate_priority_areas(d, analysis_results) ==
    IF "standards_analysis" \notin DOMAIN analysis_results
      THEN [raised |-> "KeyError"]
    ELSE
      LET sa == analysis_results.standards_analysis
          area(k) ==
              LET rows == SelectSeq(d,
                      LAMBDA r : r["Linked Standard"] = sa[k].standard)
                  has_merged ==
                      \E i \in 1..Len(rows) :
                          strip(fillna(rows[i]["Status"], "")) = "Merged"
              IN  [standard |-> sa[k].standard,
                   priority_score |->
                       calculate_priority_score(Len(rows),
                           SumOf(ToList(rows, "Final Weighted Score (1-3)")),
                           has_merged),
                   issue_count |-> Len(rows),
                   has_merged_issues |-> has_merged]
          all == [k \in 1..Len(sa) |-> area(k)]
      IN  [areas |-> SortAreas(SelectSeq(all,
                LAMBDA a : a.priority_score > PriorityThreshold))]

GeneratePriorityAreas ==
    /\ \E analysis_results \in AnalysisResults :
          \E res \in {generate_priority_areas(df, analysis_results)} :
              ret' = ReportRet("generate_priority_areas",
                         IF "raised" \in DOMAIN res THEN "raised"
                         ELSE "returned",
                         [analysis_results |-> analysis_results,
                          result |-> res])
    /\ UNCHANGED <<df, audit_file, clock, call, merge_suggestions>>

\* df["Status"].fillna("Open"), the column the status chart counts
status_filled(d) ==
    [k \in 1..Len(d) |-> [d[k] EXCEPT !["Status"] = fillna(@, "Open")]]

\* value_counts()
value_counts(d, col) ==
    [v \in {d[k][col] : k \in 1..Len(d)} |->
        Cardinality({k \in 1..Len(d) : d[k][col] = v})]

\* Variant: the status column is filled in place.
TableAfterFillna_in_place(d) == status_filled(d)

\* fillna returns a new Series; the table keeps its cells.
TableAfterFillna(d) == d

\* generate_report(df, analysis_results): charts and scope text are drawn
\* from the active rows; writing the PDF succeeds or raises.
GenerateReport ==
    /\ \E analysis_results \in AnalysisResults, pdf_raises \in BOOLEAN :
          \E active \in {report_active_issues(df)} :
              ret' = ReportRet("generate_report",
                         IF pdf_raises THEN "raised" ELSE "returned",
                         [active |-> ToList(active, "Issue ID"),
                          analysis_results |-> analysis_results,
                          standard_counts |->
                              value_counts(active, "Linked Standard"),
                          status_counts |->
                              value_counts(status_filled(active), "Status"),
                          merged_groups |->
                              Len(SelectSeq(active,
                                  LAMBDA r : r["Status"] = "Merged")),
                          unmerged_issues |->
                              Len(SelectSeq(active,
                                  LAMBDA r : r["Status"] # "Merged"))])
    /\ df' = TableAfterFillna(df)
    /\ UNCHANGED <<audit_file, clock, call, merge_suggestions>>

\* Merges, then reading operations on the table the merges left.
NextReport ==
    \/ \E s \in ShortSuggestions : call.pc = "idle" /\ ExecuteMerge(s)
    \/ call.pc = "idle" /\ AnalyzeQaIssues
    \/ call.pc = "idle" /\ GeneratePriorityAreas
    \/ call.pc = "idle" /\ GenerateReport
    \/ NextAnalysis

SpecReport == Init /\ [][NextReport]_vars

(***************************************************************************)
(* apply_merges (src/llm_utils.py): the earlier way of applying            *)
(* suggestions, still exported by the module.                              *)
(***************************************************************************)
ApplyMinConfidence == 80

\* One turn of the loop over merge_suggestions, on the copy of the table.
apply_suggestion(d, suggestion) ==
    IF suggestion["confidence"] >= ApplyMinConfidence
         /\ Len(suggestion["issues"]) >= 2
      THEN LET primary_issue == suggestion["issues"][1]
               secondary_issues == Tail(suggestion["issues"])
           IN  IF ~\E i \in 1..Len(d) : d[i]["Issue ID"] = primary_issue
                 THEN [df |-> d, raised |-> "IndexError"]
                 ELSE LET cell == (CHOOSE r \in {d[i] : i \in 1..Len(d)} :
                                      r["Issue ID"] = primary_issue)["Merged IDs"]
                          merged_ids == IF cell = NA THEN "" ELSE cell
                          new_merged_ids ==
                              (IF merged_ids # "" THEN merged_ids \o ","
                               ELSE "")
                                \o JoinWith(secondary_issues, "", ",")
                      IN  [df |-> UpdateSecondaries(
                                      SetLoc(d, primary_issue, "Merged IDs",
                                             new_merged_ids),
                                      secondary_issues, primary_issue),
                           raised |-> ""]
      ELSE [df |-> d, raised |-> ""]

RECURSIVE apply_merges(_, _)
apply_merges(d, suggestions) ==
    IF suggestions = <<>> THEN [df |-> d, raised |-> ""]
    ELSE LET res == apply_suggestion(d, suggestions[1])
         IN  IF res.raised # "" THEN res
             ELSE apply_merges(res.df, Tail(suggestions))

\* df, merge_actions = apply_merges(df, merge_suggestions)
ApplyMerges(suggestions) ==
    \E res \in {apply_merges(df, suggestions)} :
        /\ df' = IF res.raised # "" THEN df ELSE res.df
        /\ ret' = ReportRet("apply_merges",
                      IF res.raised # "" THEN "raised" ELSE "returned",
                      [merge_suggestions |-> suggestions])
        /\ UNCHANGED <<audit_file, clock, call, merge_suggestions>>

\* Merges through the executor, then one call of apply_merges.
NextLegacy ==
    \/ \E s \in ShortSuggestions :
          ret.op # "apply_merges" /\ ExecuteMerge(s)
    \/ \E s \in ShortSuggestions :
          ret.op # "apply_merges" /\ ApplyMerges(<<s>>)

SpecLegacy == Init /\ [][NextLegacy]_vars

(***************************************************************************)
(* load_and_validate_data (src/app.py): the table is built from an         *)
(* uploaded CSV file.                                                      *)
(***************************************************************************)
required_columns ==
    <<"Issue ID", "Result ID", "Test Case IDs", "Input Prompt",
      "Ground Truth", "Generated Response", "Linked Theme",
      "Linked Standard", "Session IDs", "Version Tested",
      "Run Date", "Failure Rationale", "Final Weighted Score (1-3)">>

MergeColumns == <<"Status", "Merged With Issue ID", "Merged IDs">>

ColumnNames ==
    {required_columns[k] : k \in 1..Len(required_columns)}
      \cup {MergeColumns[k] : k \in 1..Len(MergeColumns)}

\* A header cell written with surrounding whitespace.
Padded(c) == " " \o c \o " "

\* Variant: column names are compared as they are written in the file.
strip_column_keeps_whitespace(c) == c

\* str.strip() of a header cell
strip_column(c) ==
    IF \E n \in ColumnNames : c = Padded(n)
      THEN CHOOSE n \in ColumnNames : c = Padded(n)
      ELSE c

\* Uploaded files: some required columns left out, header cells padded or
\* not, any of the merge columns present, and the cells they hold.
OmittedColumns == SUBSET {"Issue ID", "Linked Standard"}

FileStatuses == {NA, "Open", "Primary", "Merged"}

FileRows == 2

CsvCell(col, i, status, merged_with) ==
    IF col = "Issue ID" THEN IdName[i]
    ELSE IF col = "Linked Standard" THEN "A"
    ELSE IF col = "Final Weighted Score (1-3)" THEN ScoreOf(i)
    ELSE IF col = "Status" THEN status[i]
    ELSE IF col = "Merged With Issue ID" THEN merged_with[i]
    ELSE IF col = "Merged IDs" THEN NA
    ELSE "x"

CsvFile(readable, omitted, padded, merge_columns, status, merged_with) ==
    LET names == SelectSeq(required_columns, LAMBDA c : c \notin omitted)
                   \o SelectSeq(MergeColumns, LAMBDA c : c \in merge_columns)
        header == [k \in 1..Len(names) |->
                      IF padded THEN Padded(names[k]) ELSE names[k]]
    IN  [readable |-> readable,
         columns |-> header,
         rows |-> [i \in 1..FileRows |->
                     [c \in {header[k] : k \in 1..Len(header)} |->
                         CsvCell(strip_column(c), i, status, merged_with)]]]

UploadedFiles ==
    {CsvFile(readable, omitted, padded, merge_columns, status, merged_with) :
        readable \in BOOLEAN, omitted \in OmittedColumns, padded \in BOOLEAN,
        merge_columns \in SUBSET ColumnNames \cap
                          SUBSET {"Status", "Merged With Issue ID",
                                  "Merged IDs"},
        status \in [1..FileRows -> FileStatuses],
        merged_with \in {[i \in 1..FileRows |-> NA],
                         [i \in 1..FileRows |-> IF i = 2 THEN "I1" ELSE NA]}}

\* The column of the read table whose stripped name is c.
RawColumn(file, c) ==
    CHOOSE k \in 1..Len(file.columns) : strip_column(file.columns[k]) = c

load_and_validate_data(uploaded_file) ==
    IF ~uploaded_file.readable
      THEN [df |-> <<>>, error |-> "Error loading file: read_csv"]
    ELSE
      LET columns == [k \in 1..Len(uploaded_file.columns) |->
                         strip_column(uploaded_file.columns[k])]
          df_columns == {strip_column(columns[k]) : k \in 1..Len(columns)}
          missing_columns ==
              SelectSeq(required_columns, LAMBDA c : c \notin df_columns)
          cell(i, c) ==
              uploaded_file.rows[i]
                  [uploaded_file.columns[RawColumn(uploaded_file, c)]]
          loaded(i, c) ==
              IF c \notin df_columns THEN NA
              ELSE IF c = "Status" /\ cell(i, c) = "Open" THEN NA
              ELSE cell(i, c)
      IN  IF missing_columns # <<>>
            THEN [df |-> <<>>,
                  error |-> "Missing required columns: "
                              \o Join(missing_columns)]
            ELSE [df |-> [i \in 1..Len(uploaded_file.rows) |->
                            [c \in df_columns \cup
                                   {"Status", "Merged With Issue ID",
                                    "Merged IDs"} |-> loaded(i, c)]],
                  error |-> ""]

InitLoad ==
    /\ df = <<>>
    /\ audit_file = [exists |-> FALSE, lines |-> <<>>]
    /\ clock = 0
    /\ call = NoCall
    /\ merge_suggestions = <<>>
    /\ \E uploaded_file \in UploadedFiles :
          ret = ReportRet("load_and_validate_data", "called",
                          [uploaded_file |-> uploaded_file])

\* df, error = load_and_validate_data(uploaded_file)
LoadAndValidateData ==
    /\ ret.op = "load_and_validate_data"
    /\ ret.outcome = "called"
    /\ \E res \in {load_and_validate_data(ret.value.uploaded_file)} :
          /\ df' = res.df
          /\ ret' = ReportRet("load_and_validate_data", "returned",
                        [uploaded_file |-> ret.value.uploaded_file,
                         error |-> res.error])
    /\ UNCHANGED <<audit_file, clock, call, merge_suggestions>>

NextLoad == LoadAndValidateData

SpecLoad == InitLoad /\ [][NextLoad]_vars

(***************************************************************************)
(* Two callers of execute_merge on one table and one audit file.  A caller *)
(* validates the table it was handed, then works on its copy and logs,     *)
(* then its result is assigned to the table.  The steps of the two callers *)
(* interleave; call holds each caller's position.                          *)
(***************************************************************************)
Callers == {"c1", "c2"}

NoCaller ==
    [pc |-> "idle", suggestion |-> None, snapshot |-> <<>>,
     result |-> <<>>, outcome |-> ""]

\* Suggestions of two existing ids.
PairSuggestions ==
    {s \in ShortSuggestions :
        /\ Len(s["issues"]) = 2
        /\ \A k \in 1..2 : s["issues"][k] \in IssueIds}

InitConcurrent ==
    /\ \E std \in [1..Len(IdName) -> Standards], profile \in Profiles :
          df = Table(std, profile)
    /\ audit_file = [exists |-> FALSE, lines |-> <<>>]
    /\ clock = 0
    /\ ret = [op |-> "init", outcome |-> "none", merge_action |-> None,
              applied |-> None, value |-> None]
    /\ call = [c \in Callers |-> NoCaller]
    /\ merge_suggestions = <<>>

\* execute_merge(df, suggestion), up to the validation result
Validate(c, merge_suggestion) ==
    /\ call[c].pc = "idle"
    /\ \E v \in {validate_merge_group(df, WorkingIssues(merge_suggestion))} :
          call' = [call EXCEPT ![c] =
                     [pc |-> IF v[1] THEN "validated" ELSE "done",
                      suggestion |-> merge_suggestion,
                      snapshot |-> df,
                      result |-> <<>>,
                      outcome |-> IF v[1] THEN "" ELSE "rejected"]]
    /\ UNCHANGED <<df, audit_file, clock, ret, merge_suggestions>>

\* df = df.copy(), the writes on the copy, and log_merge
Mutate(c) ==
    /\ call[c].pc = "validated"
    /\ clock < MaxMerges
    /\ \E res \in {execute_merge(call[c].snapshot, call[c].suggestion)} :
          /\ audit_file' = log_merge(audit_file, res.merge_action, clock + 1)
          /\ clock' = clock + 1
          /\ call' = [call EXCEPT ![c].pc = "merged",
                                  ![c].result = res.df,
                                  ![c].outcome = "merged"]
    /\ UNCHANGED <<df, ret, merge_suggestions>>

\* st.session_state.df = updated_df
Commit(c) ==
    /\ call[c].pc = "merged"
    /\ df' = call[c].result
    /\ call' = [call EXCEPT ![c].pc = "done"]
    /\ UNCHANGED <<audit_file, clock, ret, merge_suggestions>>

NextConcurrent ==
    \E c \in Callers :
        \/ \E s \in PairSuggestions : Validate(c, s)
        \/ Mutate(c)
        \/ Commit(c)

SpecConcurrent == InitConcurrent /\ [][NextConcurrent]_vars

(***************************************************************************)
(* Vocabulary of the data model (spec section 3).                          *)
(***************************************************************************)
RowIdx == 1..Len(df)

IsOpen(r) == r["Status"] = NA
IsPrimary(r) == r["Status"] = "Primary"
IsMerged(r) == r["Status"] = "Merged"

\* merged_with_issue_id is set and non-empty
HasMergedWith(r) == r["Merged With Issue ID"] \notin {NA, ""}

\* merged_ids is non-empty: the cell holds a list with at least one id
HasMergedIds(r) == r["Merged IDs"] \notin {NA, "", json_dumps(<<>>)}

\* The row of the table d that carries issue id (ids are unique).
RowOf(d, id) == d[CHOOSE i \in 1..Len(d) : d[i]["Issue ID"] = id]

Exists(d, id) == \E i \in 1..Len(d) : d[i]["Issue ID"] = id

MergedIn(d, id) == \E i \in 1..Len(d) : d[i]["Issue ID"] = id /\ IsMerged(d[i])

History == get_merge_history(audit_file, TRUE)

(***************************************************************************)
(* C1: after any sequence of execute_merge calls from an all-Open table,   *)
(* every record has status Primary if and only if its merged_ids is        *)
(* non-empty, also when a group contains a record that is already Primary. *)
(* The code breaks this: a Primary record absorbed as a secondary keeps    *)
(* its Merged IDs, and so does a primary named again among its own         *)
(* secondaries.                                                            *)
(***************************************************************************)
C1_PrimaryIffMergedIds ==
    \A i \in RowIdx : IsPrimary(df[i]) <=> HasMergedIds(df[i])

(***************************************************************************)
(* C2: after any sequence of execute_merge calls from an all-Open table,   *)
(* every record has status Merged if and only if its merged_with_issue_id  *)
(* is set and non-empty.                                                   *)
(***************************************************************************)
C2_MergedIffMergedWith ==
    \A i \in RowIdx : IsMerged(df[i]) <=> HasMergedWith(df[i])

C2_Witness ==
    /\ ret.outcome = "merged"
    /\ \E i \in RowIdx : IsMerged(df[i]) /\ HasMergedWith(df[i])
    /\ \E i \in RowIdx : IsPrimary(df[i]) /\ ~HasMergedWith(df[i])

(***************************************************************************)
(* C3: after any sequence of execute_merge calls from an all-Open table,   *)
(* every record has status Open (empty Status) if and only if both its     *)
(* merged_with_issue_id and its merged_ids are empty.                      *)
(***************************************************************************)
C3_OpenIffNoLinks ==
    \A i \in RowIdx :
        IsOpen(df[i]) <=> (~HasMergedWith(df[i]) /\ ~HasMergedIds(df[i]))

C3_Witness ==
    /\ ret.outcome = "merged"
    /\ \E i \in RowIdx : IsOpen(df[i])
    /\ \E i \in RowIdx : IsPrimary(df[i]) /\ HasMergedIds(df[i])
    /\ \E i \in RowIdx : IsMerged(df[i]) /\ HasMergedWith(df[i])

(***************************************************************************)
(* C4: execute_merge is atomic on rejection: whenever the validator        *)
(* rejects the working id list, execute_merge returns the input store      *)
(* unchanged together with a null entry, and the audit log is not          *)
(* appended to.                                                            *)
(***************************************************************************)
C4_AtomicOnRejection ==
    /\ [](\A s \in Suggestions :
            ~validate_merge_group(df, WorkingIssues(s))[1] =>
                /\ execute_merge(df, s).df = df
                /\ execute_merge(df, s).merge_action = None)
    /\ [][(ret'.op = "execute_merge" /\ ret'.outcome = "rejected") =>
            (df' = df /\ audit_file' = audit_file /\ ret'.merge_action = None)]_vars

C4_Witness ==
    /\ ret.op = "execute_merge"
    /\ ret.outcome = "rejected"
    /\ Len(History) >= 1
    /\ \E i \in RowIdx : IsMerged(df[i])

(***************************************************************************)
(* C5: merged_with_issue_id is write-once: across any serial sequence of   *)
(* execute_merge calls, a record's merged_with_issue_id, once set, keeps   *)
(* its value in every later state.                                         *)
(***************************************************************************)
C5_MergedWithWriteOnce ==
    [][\A i \in RowIdx :
          HasMergedWith(df[i]) =>
              df'[i]["Merged With Issue ID"] = df[i]["Merged With Issue ID"]]_vars

C5_Witness ==
    /\ ret.outcome = "merged"
    /\ Len(History) >= 2
    /\ \E i \in RowIdx :
          /\ HasMergedWith(df[i])
          /\ df[i]["Issue ID"] \in {History[1].secondary_issues[k] :
                                      k \in 1..Len(History[1].secondary_issues)}

(***************************************************************************)
(* C6: validation rejects every group of at least 2 existing ids that      *)
(* contains a record whose status is Merged, listed first or later, and    *)
(* the reason lists exactly the already-merged ids of the group.           *)
(***************************************************************************)
C6_RejectsMergedMembers ==
    \A g \in Groups :
        (/\ Len(g) >= 2
         /\ \A k \in 1..Len(g) : Exists(df, g[k])
         /\ \E k \in 1..Len(g) : MergedIn(df, g[k]))
        => validate_merge_group(df, g) =
              <<FALSE, "Issues already merged: " \o
                       Join(SelectSeq(g, LAMBDA x : MergedIn(df, x)))>>

C6_Witness ==
    /\ ret.op = "execute_merge"
    /\ ret.outcome = "rejected"
    /\ \E i, j \in RowIdx : IsMerged(df[i]) /\ ~IsMerged(df[j])

(***************************************************************************)
(* C7 as stated: a group whose existing, non-Merged members span two       *)
(* standards is always rejected, and validating [x, y] where x has         *)
(* standard A and y has standard B yields the reason "Issues have          *)
(* different standards: A, B" whatever the order of the rows of x and y    *)
(* in the table.                                                           *)
(***************************************************************************)
StandardOf(d, id) == RowOf(d, id)["Linked Standard"]

RowIndexOf(d, id) == CHOOSE i \in 1..Len(d) : d[i]["Issue ID"] = id

\* The existing, non-Merged members of g span two different standards.
SpansTwoStandards(d, g) ==
    \E k, l \in 1..Len(g) :
        /\ Exists(d, g[k]) /\ ~MergedIn(d, g[k])
        /\ Exists(d, g[l]) /\ ~MergedIn(d, g[l])
        /\ StandardOf(d, g[k]) # StandardOf(d, g[l])

C7_StandardsInGroupOrder ==
    /\ \A g \in Groups :
          SpansTwoStandards(df, g) => ~validate_merge_group(df, g)[1]
    /\ \A x, y \in IssueIds :
          StandardOf(df, x) # StandardOf(df, y) =>
              validate_merge_group(df, <<x, y>>) =
                  <<FALSE, "Issues have different standards: " \o
                           StandardOf(df, x) \o ", " \o StandardOf(df, y)>>

(***************************************************************************)
(* C7 as amended: a group whose existing, non-Merged members span two      *)
(* standards is always rejected, and validating [x, y] where x and y are   *)
(* not Merged and have different standards yields the reason "Issues have  *)
(* different standards: " followed by the two standards in the order of    *)
(* the rows of x and y in the table.                                       *)
(***************************************************************************)
C7_StandardsInTableOrder ==
    /\ \A g \in Groups :
          SpansTwoStandards(df, g) => ~validate_merge_group(df, g)[1]
    /\ \A x, y \in IssueIds :
          (/\ StandardOf(df, x) # StandardOf(df, y)
           /\ ~MergedIn(df, x)
           /\ ~MergedIn(df, y))
          => validate_merge_group(df, <<x, y>>) =
                <<FALSE, "Issues have different standards: " \o
                    (IF RowIndexOf(df, x) < RowIndexOf(df, y)
                       THEN StandardOf(df, x) \o ", " \o StandardOf(df, y)
                       ELSE StandardOf(df, y) \o ", " \o StandardOf(df, x))>>

C7_Witness ==
    /\ ret.op = "execute_merge"
    /\ ret.outcome = "rejected"
    /\ \E i, j \in RowIdx :
          /\ i < j
          /\ ~IsMerged(df[i]) /\ ~IsMerged(df[j])
          /\ df[i]["Linked Standard"] = "B"
          /\ df[j]["Linked Standard"] = "A"

(***************************************************************************)
(* C8: the validator applies its checks in the fixed order (1) at least 2  *)
(* ids, (2) all ids exist, (3) no id is Merged, (4) single standard, and   *)
(* reports only the first failing check; a group with a missing id and a   *)
(* Merged id gets the missing-ids reason, a group with a Merged id and     *)
(* mixed standards gets the already-merged reason.  The validator is a     *)
(* function of the table and the group: it has no effect on the store.     *)
(***************************************************************************)
NonEmptyGroups == Groups \ {<<>>}

TooFewReasons == {"Need at least 2 issues to merge"}
NotFoundReasons == {"Issues not found: " \o Join(g) : g \in NonEmptyGroups}
AlreadyMergedReasons == {"Issues already merged: " \o Join(g) : g \in NonEmptyGroups}
StandardsReasons ==
    {"Issues have different standards: " \o a \o ", " \o b :
        a \in Standards, b \in Standards}

\* The reasons the first failing check of g may give; {""} when none fails.
ExpectedReasons(d, g) ==
    IF Len(g) < 2 THEN TooFewReasons
    ELSE IF \E k \in 1..Len(g) : ~Exists(d, g[k]) THEN NotFoundReasons
    ELSE IF \E k \in 1..Len(g) : MergedIn(d, g[k]) THEN AlreadyMergedReasons
    ELSE IF \E k, l \in 1..Len(g) : StandardOf(d, g[k]) # StandardOf(d, g[l])
      THEN StandardsReasons
    ELSE {""}

C8_ChecksInOrder ==
    \A g \in Groups :
        LET v == validate_merge_group(df, g)
        IN  /\ v[2] \in ExpectedReasons(df, g)
            /\ v[1] <=> (v[2] = "")

\* A state where a group with a missing and a Merged id exists, and one
\* with a Merged id and mixed standards, after a rejected call.
C8_Witness ==
    /\ ret.op = "execute_merge"
    /\ ret.outcome = "rejected"
    /\ \E i, j \in RowIdx :
          /\ IsMerged(df[i])
          /\ df[i]["Linked Standard"] # df[j]["Linked Standard"]

(***************************************************************************)
(* C9: audit monotonicity: in any serial sequence of execute_merge calls   *)
(* the length of history() increases by exactly 1 after each successful    *)
(* call and by 0 after each rejected one, and the new last entry of a      *)
(* successful call names that call's primary and secondaries.              *)
(***************************************************************************)
C9_AuditMonotonic ==
    /\ [](\A s \in Suggestions :
            validate_merge_group(df, WorkingIssues(s))[1] =>
                /\ execute_merge(df, s).merge_action.primary_issue =
                       WorkingIssues(s)[1]
                /\ execute_merge(df, s).merge_action.secondary_issues =
                       Tail(WorkingIssues(s)))
    /\ [][ret'.op = "execute_merge" =>
            LET before == get_merge_history(audit_file, TRUE)
                after == get_merge_history(audit_file', TRUE)
            IN  /\ ret'.outcome = "merged" =>
                    /\ Len(after) = Len(before) + 1
                    /\ after[Len(after)].primary_issue =
                           ret'.merge_action.primary_issue
                    /\ after[Len(after)].secondary_issues =
                           ret'.merge_action.secondary_issues
                /\ ret'.outcome = "rejected" => Len(after) = Len(before)]_vars

C9_Witness ==
    /\ ret.op = "execute_merge"
    /\ ret.outcome = "merged"
    /\ Len(History) >= 2
    /\ History[Len(History)].primary_issue = ret.merge_action.primary_issue

(***************************************************************************)
(* C10: on a successful execute_merge of the working list issues, in the   *)
(* returned store issues[0] has status Primary and merged_ids equal to     *)
(* issues[1:] in the given order, and every id of issues[1:] has status    *)
(* Merged and merged_with_issue_id equal to issues[0].  The code breaks    *)
(* this when the working list names its primary again as a secondary.      *)
(***************************************************************************)
C10_MergeOutcome ==
    ret.outcome = "merged" =>
        LET primary_issue == ret.merge_action.primary_issue
            secondary_issues == ret.merge_action.secondary_issues
        IN  /\ IsPrimary(RowOf(df, primary_issue))
            /\ RowOf(df, primary_issue)["Merged IDs"] = json_dumps(secondary_issues)
            /\ \A k \in 1..Len(secondary_issues) :
                  /\ IsMerged(RowOf(df, secondary_issues[k]))
                  /\ RowOf(df, secondary_issues[k])["Merged With Issue ID"] =
                         primary_issue

(***************************************************************************)
(* C11: after a successful execute_merge the primary's score equals the    *)
(* maximum of the scores of all group members: merging I1 (score 2) and    *)
(* I2 (score 3) with group [I1, I2] leaves I1 with score 3.  The code      *)
(* breaks this: execute_merge combines only the prompt and the rationale,  *)
(* the score branch of combine_field_values is never reached.              *)
(***************************************************************************)
ScoreField == "Final Weighted Score (1-3)"

\* The scores of the records named by issues, in the order of issues.
ScoresOf(d, issues) ==
    [k \in 1..Len(issues) |-> RowOf(d, issues[k])[ScoreField]]

C11_PrimaryScoreIsMax ==
    ret.outcome = "merged" =>
        LET primary_issue == ret.merge_action.primary_issue
            issues == <<primary_issue>> \o ret.merge_action.secondary_issues
        IN  RowOf(df, primary_issue)[ScoreField] = MaxOf(ScoresOf(df, issues))

(***************************************************************************)
(* C12: execute_merge validates and merges the operator-selected subset    *)
(* (selected_issues) whenever the suggestion carries one, and the full     *)
(* proposed list (issues) otherwise.  Records of the proposed group that   *)
(* are not in the selected subset are left as they were (Open stays Open)  *)
(* and are not named in the audit entry.  A selected subset reduced to the *)
(* primary alone is rejected with the at-least-2 reason.                   *)
(***************************************************************************)
HasSelection(s) == "selected_issues" \in DOMAIN s

\* The list the claim says the call works on.
ChosenIssues(s) == IF HasSelection(s) THEN s["selected_issues"] ELSE s["issues"]

\* The ids of the proposed group that the operator left out.
ExcludedIds(s) ==
    {s["issues"][k] : k \in 1..Len(s["issues"])} \
        {ChosenIssues(s)[k] : k \in 1..Len(ChosenIssues(s))}

Names(entry, id) ==
    \/ entry.primary_issue = id
    \/ Contains(entry.secondary_issues, id)

C12_SelectedSubset ==
    /\ [](\A s \in Suggestions :
            \E res \in {execute_merge(df, s)}, v \in {validate_merge_group(df, ChosenIssues(s))} :
                /\ (res.merge_action # None) <=> v[1]
                /\ res.error = v[2]
                /\ v[1] =>
                      /\ res.merge_action.primary_issue = ChosenIssues(s)[1]
                      /\ res.merge_action.secondary_issues = Tail(ChosenIssues(s))
                      /\ \A id \in ExcludedIds(s) :
                            RowOf(res.df, id) = RowOf(df, id)
                /\ (HasSelection(s) /\ Len(s["selected_issues"]) = 1) =>
                      v = <<FALSE, "Need at least 2 issues to merge">>)
    /\ [][ret'.outcome = "merged" =>
            /\ ret'.merge_action.primary_issue = ChosenIssues(ret'.applied)[1]
            /\ ret'.merge_action.secondary_issues = Tail(ChosenIssues(ret'.applied))
            /\ \A id \in ExcludedIds(ret'.applied) :
                  /\ RowOf(df', id) = RowOf(df, id)
                  /\ ~Names(History'[Len(History')], id)]_vars

\* A merge of a selected subset that left a proposed record Open.
C12_Witness ==
    /\ ret.outcome = "merged"
    /\ HasSelection(ret.applied)
    /\ \E id \in ExcludedIds(ret.applied) :
          /\ IsOpen(RowOf(df, id))
          /\ ~Names(History[Len(History)], id)

(***************************************************************************)
(* C13: the audit entry created by a successful execute_merge carries      *)
(* primary_issue, secondary_issues (in order), confidence, rationale, a    *)
(* timestamp and the constant action "merge", and in addition the          *)
(* post-merge values of all combined fields.  The code breaks the last     *)
(* part: the logged object has the six keys and nothing else.              *)
(***************************************************************************)
C13_EntryCarriesCombinedFields ==
    ret.outcome = "merged" =>
        LET entry == History[Len(History)]
            issues == ChosenIssues(ret.applied)
        IN  /\ entry.primary_issue = issues[1]
            /\ entry.secondary_issues = Tail(issues)
            /\ entry.confidence = ret.applied["confidence"]
            /\ entry.rationale = ret.applied["rationale"]
            /\ entry.action = "merge"
            /\ "timestamp" \in DOMAIN entry
            /\ \A k \in 1..Len(CombineFields) :
                  /\ CombineFields[k] \in DOMAIN entry
                  /\ entry[CombineFields[k]] = RowOf(df, issues[1])[CombineFields[k]]

(***************************************************************************)
(* C14: if appending the audit entry fails during execute_merge, the merge *)
(* is not committed: the table held by the caller (the session's table) is *)
(* exactly the table before the call, no (table, entry) result is          *)
(* returned, and the call ends by raising instead of reporting a merge.    *)
(* Put on one step: a call reports a merge only together with one more     *)
(* line in the log, and a call that leaves the log as it was leaves the    *)
(* table as it was and returns no entry.                                   *)
(***************************************************************************)
C14_NoCommitWithoutAudit ==
    [][ret'.op = "execute_merge" =>
          /\ ret'.outcome = "merged" => Len(History') = Len(History) + 1
          /\ audit_file' = audit_file =>
                /\ df' = df
                /\ ret'.merge_action = None
                /\ ret'.outcome \in {"rejected", "raised"}
          /\ ret'.outcome = "raised" =>
                /\ df' = df
                /\ audit_file' = audit_file
                /\ ret'.merge_action = None]_vars

\* The append failed for a group that a later call could still merge: the
\* records that would have been merged are Open.
C14_Witness ==
    /\ ret.op = "execute_merge"
    /\ ret.outcome = "raised"
    /\ \E g \in Groups : validate_merge_group(df, g)[1]
    /\ Len(History) >= 1

(***************************************************************************)
(* C15: history(use_cache = true) returns all logged entries in the order  *)
(* they were appended, and an empty sequence, without error, when no log   *)
(* exists; history(use_cache = false) returns an empty sequence whatever   *)
(* the log holds, and does not change the log.                             *)
(* The entries logged so far are followed step by step: a merge extends    *)
(* what history(true) returns by exactly its own entry, at the end, and a  *)
(* read returns that sequence (or the empty one) and changes nothing.      *)
(***************************************************************************)
C15_HistoryInAppendOrder ==
    /\ [](~audit_file.exists => get_merge_history(audit_file, TRUE) = <<>>)
    /\ [](get_merge_history(audit_file, FALSE) = <<>>)
    /\ [][ret'.outcome = "merged" =>
            get_merge_history(audit_file', TRUE) =
                Append(get_merge_history(audit_file, TRUE),
                       audit_entry(ret'.merge_action, clock'))]_vars
    /\ [][ret'.op = "get_merge_history" =>
            /\ audit_file' = audit_file
            /\ df' = df
            /\ ret'.value.history =
                   IF ret'.value.use_cache
                     THEN [k \in 1..Len(audit_file.lines) |->
                              json_loads(audit_file.lines[k])]
                     ELSE <<>>
            /\ \A k \in 1..Len(ret'.value.history) :
                  ret'.value.history[k] \in LoggableEntries]_vars

\* A read of a log of two entries returned them oldest first.
C15_Witness ==
    /\ ret.op = "get_merge_history"
    /\ ret.value.use_cache
    /\ Len(ret.value.history) = 2
    /\ ret.value.history[1].timestamp < ret.value.history[2].timestamp
    /\ ret.value.history[1].primary_issue # ret.value.history[2].primary_issue

(***************************************************************************)
(* C16 as stated: clear() removes the entire audit log and returns true    *)
(* exactly when a log existed before the call (false when none existed);   *)
(* immediately afterwards history() has length 0, and the issue table is   *)
(* not modified by clear().                                                *)
(***************************************************************************)
C16_ClearReturnsExisted ==
    [][ret'.op = "clear_cache" =>
          /\ ret'.value.result <=> audit_file.exists
          /\ ~audit_file'.exists
          /\ Len(get_merge_history(audit_file', TRUE)) = 0
          /\ df' = df]_vars

(***************************************************************************)
(* C16 as amended: clear() returns true exactly when a log existed before  *)
(* the call and its removal succeeded; it returns false when none existed  *)
(* and when the removal raised, and then the log is left exactly as it     *)
(* was.  Whenever clear() returned true or no log existed, history() has   *)
(* length 0 immediately afterwards.  The issue table is not modified.      *)
(***************************************************************************)
C16_ClearReturnsRemoved ==
    [][ret'.op = "clear_cache" =>
          /\ ret'.value.result <=> (audit_file.exists /\ ~audit_file'.exists)
          /\ audit_file'.exists => audit_file' = audit_file
          /\ (ret'.value.result \/ ~audit_file.exists) =>
                Len(get_merge_history(audit_file', TRUE)) = 0
          /\ df' = df]_vars

\* A log of two merges has just been removed.
C16_Witness ==
    /\ ret.op = "clear_cache"
    /\ ret.value.result
    /\ ~audit_file.exists
    /\ clock = 2
    /\ \E i \in RowIdx : IsMerged(df[i])

(***************************************************************************)
(* C17: the audit log is append-only: over any sequence of log and         *)
(* execute_merge operations (and reads) that contains no clear(), the      *)
(* history() observed before an operation is a prefix of the history()     *)
(* observed after it: entries are never mutated, reordered or deleted.     *)
(***************************************************************************)
IsPrefix(s, t) == Len(s) <= Len(t) /\ SubSeq(t, 1, Len(s)) = s

C17_AppendOnly ==
    [][ret'.op # "clear_cache" =>
          /\ IsPrefix(get_merge_history(audit_file, TRUE),
                      get_merge_history(audit_file', TRUE))
          /\ IsPrefix(audit_file.lines, audit_file'.lines)]_vars

\* A second entry has just been appended behind the first.
C17_Witness ==
    /\ ret.op = "execute_merge"
    /\ ret.outcome = "merged"
    /\ Len(audit_file.lines) = 2
    /\ History[1].timestamp < History[2].timestamp
    /\ History[2].primary_issue = ret.merge_action.primary_issue
    /\ History[1].primary_issue # History[2].primary_issue

(***************************************************************************)
(* C18: analyze_issues_for_merge sends to the oracle only records that are *)
(* Open (empty Status, empty Merged With Issue ID, empty Merged IDs),      *)
(* grouped by standard: every request names records of one standard, a     *)
(* standard is asked about at most once, and no request is made for a      *)
(* standard that has fewer than 2 open records.  With no open record at    *)
(* all the call returns an empty list without any request.                 *)
(***************************************************************************)
OpenRecord(r) == IsOpen(r) /\ ~HasMergedWith(r) /\ ~HasMergedIds(r)

OpenRowsOf(d, standard) ==
    {i \in 1..Len(d) : OpenRecord(d[i]) /\ d[i]["Linked Standard"] = standard}

C18_OnlyOpenRecordsAsked ==
    /\ \A k \in 1..Len(call.requests) :
          LET q == call.requests[k]
          IN  /\ Cardinality(OpenRowsOf(df, q.standard)) >= 2
              /\ \A i \in 1..Len(q.issues) :
                    /\ Exists(df, q.issues[i].issue_id)
                    /\ OpenRecord(RowOf(df, q.issues[i].issue_id))
                    /\ StandardOf(df, q.issues[i].issue_id) = q.standard
                    /\ q.issues[i].linked_standard = q.standard
              /\ \A l \in 1..Len(call.requests) :
                    call.requests[l].standard = q.standard => l = k
    /\ (\A i \in RowIdx : ~OpenRecord(df[i])) =>
          /\ call.pc # "loop"
          /\ call.requests = <<>>
          /\ merge_suggestions = <<>>

\* One request was made, for a standard that also has a Primary and a
\* Merged record: the two Open records alone were sent.
C18_Witness ==
    /\ call.pc = "returned"
    /\ Len(call.requests) = 1
    /\ Len(call.requests[1].issues) = 2
    /\ \E i, j \in RowIdx :
          /\ IsMerged(df[i]) /\ IsPrimary(df[j])
          /\ df[i]["Linked Standard"] = call.requests[1].standard
          /\ df[j]["Linked Standard"] = call.requests[1].standard

(***************************************************************************)
(* C19: suggestion acceptance is first-claim-wins in oracle-return order:  *)
(* the filter accepts a candidate if and only if its confidence is at      *)
(* least 0.8 and none of its ids belongs to a candidate accepted earlier   *)
(* in the same call; a candidate rejected for low confidence claims no     *)
(* ids.  Hence the accepted groups of one call are pairwise disjoint, and  *)
(* of [I1,I2] at 0.85 followed by [I2,I3] at 0.95 only the first is        *)
(* accepted.  The ids claimed so far in the call are processed_issues.     *)
(***************************************************************************)
WellFormed(r) ==
    \A k \in 1..Len(r) : {"issues", "confidence"} \subseteq DOMAIN r[k]

\* The positions of r the claim says are accepted, given the ids claimed.
ExpectedAccepted(r, claimed) ==
    CHOOSE A \in SUBSET (1..Len(r)) :
        \A k \in 1..Len(r) :
            k \in A <=>
                /\ r[k]["confidence"] >= 80
                /\ IdSet(r[k]["issues"]) \cap
                      (claimed \cup UNION {IdSet(r[j]["issues"]) :
                                              j \in {i \in A : i < k}}) = {}

\* The elements of r at the positions of A, from position k on, in order.
RECURSIVE PickFrom(_, _, _)
PickFrom(r, A, k) ==
    IF k > Len(r) THEN <<>>
    ELSE (IF k \in A THEN <<r[k]>> ELSE <<>>) \o PickFrom(r, A, k + 1)

IdsOf(suggestions) ==
    UNION {IdSet(suggestions[k]["issues"]) : k \in 1..Len(suggestions)}

C19_FirstClaimWins ==
    /\ filter_suggestions(
            <<Suggestion(<<"I1", "I2">>, 85, "x"),
              Suggestion(<<"I2", "I3">>, 95, "y")>>, <<>>, {}).valid_suggestions
          = <<Suggestion(<<"I1", "I2">>, 85, "x")>>
    /\ call.pc = "loop" =>
          \A r \in Responses :
              WellFormed(r) =>
                  \E res \in {filter_suggestions(r, <<>>, call.processed_issues)},
                     A \in {ExpectedAccepted(r, call.processed_issues)} :
                      /\ ~res.raised
                      /\ res.valid_suggestions = PickFrom(r, A, 1)
                      /\ res.processed_issues =
                            call.processed_issues \cup IdsOf(PickFrom(r, A, 1))
    /\ \A i, j \in 1..Len(call.all_merge_suggestions) :
          i # j => IdSet(call.all_merge_suggestions[i]["issues"]) \cap
                   IdSet(call.all_merge_suggestions[j]["issues"]) = {}
    /\ \A i \in 1..Len(call.all_merge_suggestions) :
          call.all_merge_suggestions[i]["confidence"] >= 80
    /\ IdsOf(call.all_merge_suggestions) \subseteq call.processed_issues
    /\ call.errors = <<>> =>
          call.processed_issues = IdsOf(call.all_merge_suggestions)
    /\ call.pc = "returned" => merge_suggestions = call.all_merge_suggestions

\* One suggestion has been accepted and another standard is about to be
\* asked: a candidate of confidence 0.8 naming a claimed id is dropped.
C19_Witness ==
    /\ call.pc = "loop"
    /\ call.errors = <<>>
    /\ Len(call.all_merge_suggestions) = 1
    /\ \E standard \in Standards : Asking(standard)
    /\ \E c \in Candidates :
          /\ WellFormed(<<c>>)
          /\ c["confidence"] >= 80
          /\ IdSet(c["issues"]) \cap call.processed_issues # {}
          /\ filter_suggestions(<<c>>, <<>>, call.processed_issues).valid_suggestions
                = <<>>

(***************************************************************************)
(* C20: oracle failure isolation: if the oracle call for one standard      *)
(* fails (transport error, timeout, unparsable response, or a candidate    *)
(* missing a required key), the call still processes every remaining       *)
(* qualifying standard and returns the accepted suggestions of the         *)
(* standards that succeeded; the failed standard contributes no            *)
(* suggestions and the table is unchanged.                                 *)
(* On a step that records an error the result list, the session's          *)
(* suggestions and the table stay as they were and the loop moves on to    *)
(* the next standard; the result list only ever grows at its end; when the *)
(* call has returned every standard has been visited, and every standard   *)
(* that still has 2 open records claimed by no accepted candidate was      *)
(* asked about.                                                            *)
(***************************************************************************)
\* The open records of the standard that no accepted suggestion has claimed.
UnclaimedOpenRows(standard) ==
    {i \in OpenRowsOf(df, standard) : df[i]["Issue ID"] \notin call.processed_issues}

AskedAbout(standard) ==
    \E k \in 1..Len(call.requests) : call.requests[k].standard = standard

MergedIdsOf(r) ==
    IF \E s \in Groups : json_dumps(s) = r["Merged IDs"]
      THEN CHOOSE s \in Groups : json_dumps(s) = r["Merged IDs"]
      ELSE <<>>

C21_MergedIdsShareStandard ==
    \A i \in RowIdx :
        HasMergedIds(df[i]) =>
            /\ MergedIdsOf(df[i]) # <<>>
            /\ \A k \in 1..Len(MergedIdsOf(df[i])) :
                  /\ Exists(df, MergedIdsOf(df[i])[k])
                  /\ StandardOf(df, MergedIdsOf(df[i])[k]) =
                        df[i]["Linked Standard"]

\* A primary naming its secondary, in a table that holds a second standard.
C21_Witness ==
    /\ ret.outcome = "merged"
    /\ \E i, j \in RowIdx :
          /\ IsPrimary(df[i])
          /\ Len(MergedIdsOf(df[i])) >= 1
          /\ IsMerged(RowOf(df, MergedIdsOf(df[i])[1]))
          /\ df[j]["Linked Standard"] # df[i]["Linked Standard"]

(***************************************************************************)
(* C22: combine_field_values is deterministic and deduplicates preserving  *)
(* first-seen order: empty and null values are dropped and each distinct   *)
(* value appears once in the position of its first occurrence, so          *)
(* combine(["a","b","a"]) of the rationale field is the two-item bulleted  *)
(* text (a then b), and a list with no non-empty value gives the empty     *)
(* result for every field.                                                 *)
(***************************************************************************)
Present(v) == v # NA /\ v \notin {"", " "}

FirstAt(values, v) ==
    CHOOSE k \in 1..Len(values) :
        values[k] = v /\ \A h \in 1..(k - 1) : values[h] # v

\* kept lists every present value of values once, by first occurrence.
FirstSeenOrder(kept, values) ==
    /\ {kept[k] : k \in 1..Len(kept)} =
          {values[k] : k \in {h \in 1..Len(values) : Present(values[h])}}
    /\ \A h, k \in 1..Len(kept) :
          h < k => FirstAt(values, kept[h]) < FirstAt(values, kept[k])

CombineReturned == ret.op = "combine_field_values" /\ ret.outcome = "returned"

C22_CombineDedupesInOrder ==
    CombineReturned =>
        LET values == ret.value.values
            field == ret.value.field
            result == ret.value.result
        IN  /\ result = combine_field_values(values, field)
            /\ (\A k \in 1..Len(values) : ~Present(values[k])) => result = ""
            /\ (field = "Failure Rationale"
                   /\ \E k \in 1..Len(values) : Present(values[k])) =>
                  \E kept \in SeqsUpTo(CombineValues, MaxValues) :
                      /\ FirstSeenOrder(kept, values)
                      /\ result = JoinWith(kept, Bullet, "\n")
            /\ (field = "Failure Rationale" /\ values = <<"a", "b", "a">>) =>
                  result = "* a\n* b"

C22_Witness ==
    /\ CombineReturned
    /\ ret.value.field = "Failure Rationale"
    /\ ret.value.values = <<"a", "b", "a">>
    /\ ret.value.result = "* a\n* b"

(***************************************************************************)
(* C23: secondary (status = Merged) records are excluded from the active   *)
(* issue set used for analysis and reporting: after any merge, the active  *)
(* set passed to the analysis prompt and to the report contains Open and   *)
(* Primary records only, so each merged group is counted once.             *)
(***************************************************************************)
ActiveSetOps == {"analyze_qa_issues", "generate_report"}

OpenAndPrimaryIds(d) ==
    ToList(SelectSeq(d, LAMBDA r : IsOpen(r) \/ IsPrimary(r)), "Issue ID")

C23_ActiveSetExcludesSecondaries ==
    ret.op \in ActiveSetOps =>
        /\ \A k \in 1..Len(ret.value.active) :
              ~IsMerged(RowOf(df, ret.value.active[k]))
        /\ ret.value.active = OpenAndPrimaryIds(df)

(***************************************************************************)
(* C25: reporting and analysis never mutate state: analyze_qa_issues,      *)
(* generate_priority_areas, generate_report and analyze_issues_for_merge   *)
(* leave every field of every record of the table they are given           *)
(* unchanged, and append nothing to the audit log.                         *)
(***************************************************************************)
ReadOps == {"analyze_qa_issues", "generate_priority_areas", "generate_report"}

C25_ReadersLeaveStateAlone ==
    [][(ret'.op \in ReadOps \/ call' # call) =>
          (df' = df /\ audit_file' = audit_file)]_vars

\* A report written from a table that holds a merged group.
C25_Witness ==
    /\ \E i \in RowIdx : IsMerged(df[i])
    /\ audit_file.lines # <<>>
    /\ ret.op = "generate_report"
    /\ ret.outcome = "returned"

(***************************************************************************)
(* C24: MergeExecutor.execute_merge is the sole writer of merge state: no  *)
(* other operation of the code base (suggestion ingestion, apply_merges,   *)
(* analysis, report generation, history reading) produces a table whose    *)
(* Status, Merged With Issue ID or Merged IDs differ from its input.       *)
(***************************************************************************)
MergeState(d) ==
    [i \in 1..Len(d) |->
        <<d[i]["Status"], d[i]["Merged With Issue ID"], d[i]["Merged IDs"]>>]

C24_ExecuteMergeSoleWriter ==
    [][ret'.op # "execute_merge" => MergeState(df') = MergeState(df)]_vars

(***************************************************************************)
(* C26: loading fails with an error and no table when any required column  *)
(* is missing (column names compared after trimming whitespace);           *)
(* otherwise absent Status / Merged With Issue ID / Merged IDs columns are  *)
(* created empty and an existing Status value of Open is normalized to     *)
(* empty, so a table loaded without merge columns starts with every        *)
(* record Open.                                                            *)
(***************************************************************************)
Loaded == ret.op = "load_and_validate_data" /\ ret.outcome = "returned"

\* The header of the file names column c, whitespace aside.
FileHas(file, c) ==
    \E k \in 1..Len(file.columns) : file.columns[k] \in {c, Padded(c)}

FileCell(file, i, c) ==
    file.rows[i][CHOOSE h \in {c, Padded(c)} :
                    \E k \in 1..Len(file.columns) : file.columns[k] = h]

C26_LoadContract ==
    Loaded =>
        LET file == ret.value.uploaded_file
            complete == \A k \in 1..Len(required_columns) :
                            FileHas(file, required_columns[k])
        IN  /\ (file.readable /\ ~complete) =>
                  (ret.value.error # "" /\ df = <<>>)
            /\ (file.readable /\ complete) =>
                  /\ ret.value.error = ""
                  /\ Len(df) = Len(file.rows)
                  /\ \A i \in 1..Len(df) :
                        /\ \A k \in 1..Len(MergeColumns) :
                              ~FileHas(file, MergeColumns[k]) =>
                                  df[i][MergeColumns[k]] = NA
                        /\ FileHas(file, "Status") =>
                              df[i]["Status"] =
                                 IF FileCell(file, i, "Status") = "Open"
                                   THEN NA
                                   ELSE FileCell(file, i, "Status")
                        /\ (\A k \in 1..Len(MergeColumns) :
                               ~FileHas(file, MergeColumns[k])) =>
                              (IsOpen(df[i]) /\ unmerged_mask(df[i]))

\* A file with padded header cells and no merge columns has been loaded.
C26_Witness ==
    /\ Loaded
    /\ ret.value.error = ""
    /\ ret.value.uploaded_file.columns[1] = Padded("Issue ID")
    /\ \A k \in 1..Len(MergeColumns) :
          ~FileHas(ret.value.uploaded_file, MergeColumns[k])
    /\ Len(df) = FileRows
    /\ \A i \in 1..Len(df) : IsOpen(df[i])

(***************************************************************************)
(* C27: when execute_merge calls are applied one at a time, each against   *)
(* the table the previous call left, a second group that shares a record   *)
(* made Merged by the first is rejected; when two callers both validate    *)
(* against the same pre-merge table, both overlapping merges succeed and   *)
(* committing both results leaves a state that violates the no-re-merge    *)
(* invariant: a record absorbed by two merges, or one merge's links lost   *)
(* while its audit entry exists.                                           *)
(***************************************************************************)
GroupOf(c) == WorkingIssues(call[c].suggestion)

\* The group of caller b names a record that the merge of caller a absorbs.
SharesAbsorbed(a, b) ==
    \E h \in 2..Len(GroupOf(a)), k \in 1..Len(GroupOf(b)) :
        GroupOf(a)[h] = GroupOf(b)[k]

\* The record id is listed as a secondary by two history entries.
AbsorbedTwice(id) ==
    \E i, j \in 1..Len(History) :
        /\ i # j
        /\ Contains(History[i].secondary_issues, id)
        /\ Contains(History[j].secondary_issues, id)

\* A history entry names a secondary that the table does not link to the
\* entry's primary.
LinksLost ==
    \E i \in 1..Len(History) :
        \E k \in 1..Len(History[i].secondary_issues) :
            LET r == RowOf(df, History[i].secondary_issues[k])
            IN  \/ ~IsMerged(r)
                \/ r["Merged With Issue ID"] # History[i].primary_issue

C27_SerializationRequired ==
    /\ \A c \in Callers :
          (/\ call[c].pc # "idle"
           /\ \E k \in 1..Len(GroupOf(c)) :
                 MergedIn(call[c].snapshot, GroupOf(c)[k]))
             => call[c].outcome = "rejected"
    /\ \A a, b \in Callers :
          (/\ a # b
           /\ call[a].pc = "done" /\ call[b].pc = "done"
           /\ call[a].outcome = "merged" /\ call[b].outcome = "merged"
           /\ call[a].snapshot = call[b].snapshot
           /\ SharesAbsorbed(a, b))
             => /\ Len(History) = 2
                /\ \/ \E id \in IssueIds : AbsorbedTwice(id)
                   \/ LinksLost

\* Both callers validated the same table, merged different groups sharing a
\* record, and committed: the table lacks the links of a logged merge.
C27_Witness ==
    /\ call["c1"].pc = "done" /\ call["c2"].pc = "done"
    /\ call["c1"].outcome = "merged" /\ call["c2"].outcome = "merged"
    /\ call["c1"].snapshot = call["c2"].snapshot
    /\ SharesAbsorbed("c1", "c2")
    /\ GroupOf("c1") # GroupOf("c2")
    /\ Len(History) = 2
    /\ LinksLost

(***************************************************************************)
(* C28: analyze_issues_for_merge terminates after making at most one       *)
(* oracle call per qualifying standard: a failed oracle call is abandoned  *)
(* without retry, and every call over a finite table eventually returns a  *)
(* (possibly empty) suggestion list whatever the oracle answers.           *)
(***************************************************************************)
OneCallPerStandard ==
    /\ \A k, l \in 1..Len(call.requests) :
          call.requests[k].standard = call.requests[l].standard => k = l
    /\ \A k \in 1..Len(call.errors) :
          /\ ~Contains(call.standards, call.errors[k].standard)
          /\ \A l \in 1..Len(call.errors) :
                call.errors[k].standard = call.errors[l].standard => k = l
    /\ Len(call.errors) <= Len(call.requests)

ProposeReturned ==
    /\ call.pc = "returned"
    /\ merge_suggestions = call.all_merge_suggestions

C28_ProposeTerminates == []OneCallPerStandard /\ <>ProposeReturned

\* The call has returned although an oracle call failed on the way.
C28_Witness ==
    /\ ProposeReturned
    /\ call.errors # <<>>
    /\ Len(call.requests) = 2

(***************************************************************************)
(* C29: for a combined field with no field-specific policy (Input Prompt), *)
(* a successful merge never drops the primary's own non-empty value: after *)
(* the merge the primary's value of that field is its own pre-merge value  *)
(* whenever that value was non-empty, independent of the order of the      *)
(* member rows in the table.                                               *)
(***************************************************************************)
C29_PrimaryKeepsOwnPrompt ==
    [][(clock' # clock /\ ret'.outcome = "merged") =>
          LET primary_issue == ret'.merge_action.primary_issue
              own == RowOf(df, primary_issue)["Input Prompt"]
          IN  Present(own) =>
                  RowOf(df', primary_issue)["Input Prompt"] = own]_vars

(***************************************************************************)
(* C30: frame of a successful execute_merge on a group of distinct ids:    *)
(* the only changes are the primary's status, merged_ids and combined      *)
(* content fields, and each secondary's status and merged_with_issue_id.   *)
(* Secondaries' content fields, every field of every record outside the    *)
(* working list, every record's issue id and standard, and the set (and    *)
(* uniqueness) of issue ids are unchanged; the caller's input table is not *)
(* mutated.                                                                *)
(***************************************************************************)
Columns == DOMAIN Row("I1", "A", "p", "r", 1)

PrimaryWrites ==
    {"Status", "Merged IDs", "Input Prompt", "Failure Rationale"}

SecondaryWrites == {"Status", "Merged With Issue ID"}

SameExcept(r, s, cols) == \A c \in Columns \ cols : r[c] = s[c]

MergedStep == clock' # clock /\ ret'.outcome = "merged"

C30_MergeFrame ==
    [][/\ MergedStep =>
            LET primary_issue == ret'.merge_action.primary_issue
                secondary_issues == ret'.merge_action.secondary_issues
                issues == <<primary_issue>> \o secondary_issues
            IN  (\A h, k \in 1..Len(issues) : issues[h] = issues[k] => h = k)
                  => /\ Len(df') = Len(df)
                     /\ \A i \in 1..Len(df) :
                           /\ df'[i]["Issue ID"] = df[i]["Issue ID"]
                           /\ df'[i]["Linked Standard"] =
                                 df[i]["Linked Standard"]
                           /\ IF df[i]["Issue ID"] = primary_issue
                                THEN SameExcept(df'[i], df[i], PrimaryWrites)
                              ELSE IF Contains(secondary_issues,
                                               df[i]["Issue ID"])
                                THEN SameExcept(df'[i], df[i], SecondaryWrites)
                              ELSE df'[i] = df[i]
                     /\ \A i, j \in 1..Len(df') :
                           df'[i]["Issue ID"] = df'[j]["Issue ID"] => i = j
       /\ (ret'.op = "execute_merge" /\ ret'.outcome # "merged") => df' = df
      ]_vars

\* A merge of two records has been applied next to a record outside the
\* group, and the primary's rationale is the combined one.
C30_Witness ==
    /\ ret.outcome = "merged"
    /\ Len(ret.merge_action.secondary_issues) = 1
    /\ ret.merge_action.secondary_issues[1] # ret.merge_action.primary_issue
    /\ IsPrimary(RowOf(df, ret.merge_action.primary_issue))
    /\ IsMerged(RowOf(df, ret.merge_action.secondary_issues[1]))
    /\ \E i \in RowIdx : IsOpen(df[i])
    /\ clock = 1

(***************************************************************************)
(* C31: reading history fails loudly on a corrupt log: if any line of the  *)
(* audit log is not independently parseable, get_merge_history reports an  *)
(* error instead of returning a sequence that silently omits that line,    *)
(* while a missing log file yields an empty history without error.         *)
(***************************************************************************)
HistoryRead == ret.op = "get_merge_history" /\ ret.value.use_cache

C31_CorruptLogFailsLoudly ==
    HistoryRead =>
        /\ ~audit_file.exists =>
              (ret.outcome = "returned" /\ ret.value.history = <<>>)
        /\ (audit_file.exists
              /\ \E k \in 1..Len(audit_file.lines) :
                    audit_file.lines[k] \in CorruptLines) =>
              ret.outcome = "raised"
        /\ (audit_file.exists /\ ret.outcome = "returned") =>
              /\ Len(ret.value.history) = Len(audit_file.lines)
              /\ \A k \in 1..Len(audit_file.lines) :
                    /\ audit_file.lines[k] \in WrittenLines
                    /\ json_dumps_entry(ret.value.history[k]) =
                          audit_file.lines[k]

\* The read of a log whose second line is cut short has raised.
C31_Witness ==
    /\ HistoryRead
    /\ ret.outcome = "raised"
    /\ Len(audit_file.lines) = 2
    /\ audit_file.lines[1] \in WrittenLines
    /\ audit_file.lines[2] \in CorruptLines

(***************************************************************************)
(* C32: merge links are bidirectionally consistent after any serial        *)
(* sequence of execute_merge calls from an all-Open table: a record r has  *)
(* merged_with_issue_id = p if and only if r is listed in p's merged_ids,  *)
(* and p then has status Primary.  (Stated for tables in which no record   *)
(* is linked to itself; those are the subject of C33.)                     *)
(***************************************************************************)
NoSelfLink ==
    \A i \in RowIdx : df[i]["Merged With Issue ID"] # df[i]["Issue ID"]

C32_LinksBidirectional ==
    \A i, j \in RowIdx :
        (NoSelfLink /\ i # j) =>
            /\ (df[i]["Merged With Issue ID"] = df[j]["Issue ID"])
                 <=> Contains(MergedIdsOf(df[j]), df[i]["Issue ID"])
            /\ (df[i]["Merged With Issue ID"] = df[j]["Issue ID"])
                 => IsPrimary(df[j])

(***************************************************************************)
(* C33: no record is ever merged into itself: after any execute_merge, no  *)
(* record has merged_with_issue_id equal to its own issue id nor lists its *)
(* own id in merged_ids, including when the working list names the same id *)
(* more than once (e.g. [I1, I1]), which must not be accepted as a merge   *)
(* of 2 issues.                                                            *)
(***************************************************************************)
C33_NoSelfMerge ==
    /\ \A i \in RowIdx :
          /\ df[i]["Merged With Issue ID"] # df[i]["Issue ID"]
          /\ ~Contains(MergedIdsOf(df[i]), df[i]["Issue ID"])
    /\ ret.outcome = "merged" =>
          ~Contains(ret.merge_action.secondary_issues,
                    ret.merge_action.primary_issue)

(***************************************************************************)
(* C34: the oracle is untrusted: every group returned by                   *)
(* analyze_issues_for_merge has at least 2 distinct member ids, and all of *)
(* them are ids of Open records of the single standard whose request       *)
(* produced the group, whatever ids, group sizes and confidences the       *)
(* oracle returns.                                                         *)
(***************************************************************************)
\* The ids of the records sent with the request q.
SentIds(q) == {q.issues[i].issue_id : i \in 1..Len(q.issues)}

C34_ReturnedGroupsValid ==
    \A k \in 1..Len(call.all_merge_suggestions) :
        LET g == call.all_merge_suggestions[k]["issues"]
        IN  /\ Cardinality(IdSet(g)) >= 2
            /\ \E h \in 1..Len(call.requests) :
                  IdSet(g) \subseteq SentIds(call.requests[h])
            /\ \A id \in IdSet(g) :
                  Exists(df, id) /\ OpenRecord(RowOf(df, id))

(***************************************************************************)
(* C35: suggestions of one analysis call stay applicable: provided the     *)
(* oracle returned only groups of at least 2 distinct ids drawn from the   *)
(* records sent for that standard, applying the accepted suggestions one   *)
(* after another with their full groups, in any order, never fails         *)
(* validation, and ends with every suggested id being Primary or Merged    *)
(* exactly once.                                                           *)
(***************************************************************************)
\* Every accepted group has at least 2 ids, all distinct, all of them sent
\* with one request.
GroupsFromSent ==
    \A k \in 1..Len(call.all_merge_suggestions) :
        LET g == call.all_merge_suggestions[k]["issues"]
        IN  /\ Len(g) >= 2
            /\ Cardinality(IdSet(g)) = Len(g)
            /\ \E h \in 1..Len(call.requests) :
                  IdSet(g) \subseteq SentIds(call.requests[h])

\* The table holds the merge of the group g and nothing else about its ids.
AppliedOnce(g) ==
    /\ IsPrimary(RowOf(df, g[1]))
    /\ ~HasMergedWith(RowOf(df, g[1]))
    /\ RowOf(df, g[1])["Merged IDs"] = json_dumps(Tail(g))
    /\ \A k \in 2..Len(g) :
          /\ IsMerged(RowOf(df, g[k]))
          /\ RowOf(df, g[k])["Merged With Issue ID"] = g[1]
          /\ ~HasMergedIds(RowOf(df, g[k]))

C35_SuggestionsStayApplicable ==
    /\ [][(call.pc = "returned" /\ GroupsFromSent
             /\ ret'.op = "execute_merge" /\ ret' # ret) =>
            ret'.outcome # "rejected"]_vars
    /\ []((call.pc = "returned" /\ GroupsFromSent) =>
            /\ \A k \in 1..Len(call.all_merge_suggestions) :
                  \/ Contains(merge_suggestions, call.all_merge_suggestions[k])
                  \/ AppliedOnce(call.all_merge_suggestions[k]["issues"])
            /\ \A k \in 1..Len(merge_suggestions) :
                  \A i \in 1..Len(merge_suggestions[k]["issues"]) :
                      OpenRecord(RowOf(df, merge_suggestions[k]["issues"][i])))

\* Two suggestions were returned and both have been applied.
C35_Witness ==
    /\ call.pc = "returned"
    /\ GroupsFromSent
    /\ Len(call.all_merge_suggestions) = 2
    /\ merge_suggestions = <<>>
    /\ clock = 2
    /\ \A k \in 1..2 : AppliedOnce(call.all_merge_suggestions[k]["issues"])

(***************************************************************************)
(* C36: audit log and table agree within a session: starting from an       *)
(* all-Open table and an empty log, after any serial sequence of           *)
(* execute_merge calls with no clear_cache, every record with status       *)
(* Merged is listed in secondary_issues by exactly one history entry,      *)
(* whose primary_issue is the record's Merged With Issue ID; and the       *)
(* secondaries of every history entry are Merged into its primary_issue    *)
(* in the table.                                                           *)
(***************************************************************************)
\* Every merge of the session is still in the log: clear_cache has not
\* removed a line.
LogNeverCleared == Len(History) = clock

EntriesListing(id) ==
    {k \in 1..Len(History) : Contains(History[k].secondary_issues, id)}

C36_LogAndTableAgree ==
    LogNeverCleared =>
        /\ \A i \in RowIdx :
              IsMerged(df[i]) =>
                  /\ Cardinality(EntriesListing(df[i]["Issue ID"])) = 1
                  /\ \A k \in EntriesListing(df[i]["Issue ID"]) :
                        History[k].primary_issue = df[i]["Merged With Issue ID"]
        /\ \A k \in 1..Len(History) :
              \A j \in 1..Len(History[k].secondary_issues) :
                  LET id == History[k].secondary_issues[j]
                  IN  /\ MergedIn(df, id)
                      /\ RowOf(df, id)["Merged With Issue ID"] =
                            History[k].primary_issue

\* Two merges are logged, the second absorbed the primary of the first, and
\* the record merged first still points at its own primary.
C36_Witness ==
    /\ LogNeverCleared
    /\ Len(History) = 2
    /\ Contains(History[2].secondary_issues, History[1].primary_issue)
    /\ History[1].primary_issue # History[2].primary_issue
    /\ \E i \in RowIdx :
          /\ IsMerged(df[i])
          /\ df[i]["Merged With Issue ID"] = History[1].primary_issue

(***************************************************************************)
(* C37: a standard whose oracle response is skipped as malformed leaves    *)
(* no trace in the analysis call: none of the candidates of that response  *)
(* is returned and none of their ids remains claimed, so every id in       *)
(* processed_issues is an id of a suggestion the call returns.             *)
(***************************************************************************)
ReturnedIds ==
    UNION {IdSet(call.all_merge_suggestions[k]["issues"]) :
              k \in 1..Len(call.all_merge_suggestions)}

C37_SkippedResponseLeavesNoTrace ==
    /\ call.processed_issues \subseteq ReturnedIds
    /\ [][\A new_suggestions \in Responses :
            (OracleAnswers(new_suggestions)
               /\ filter_suggestions(new_suggestions, <<>>,
                                     call.processed_issues).raised) =>
                /\ call'.all_merge_suggestions = call.all_merge_suggestions
                /\ call'.processed_issues = call.processed_issues]_vars

(***************************************************************************)
(* C38: status partition and unmerged count: after any serial sequence of  *)
(* execute_merge calls from an all-Open table, every record is in exactly  *)
(* one of Open, Primary, Merged, and get_unmerged_issues_count of the      *)
(* table is the number of Open records, that is the number of records      *)
(* minus the Primary ones minus the Merged ones.                           *)
(***************************************************************************)
OpenRecords == Cardinality({i \in RowIdx : IsOpen(df[i])})
PrimaryRecords == Cardinality({i \in RowIdx : IsPrimary(df[i])})
MergedRecords == Cardinality({i \in RowIdx : IsMerged(df[i])})

C38_PartitionAndCount ==
    /\ \A i \in RowIdx : df[i]["Status"] \in {NA, "Primary", "Merged"}
    /\ get_unmerged_issues_count(df) = OpenRecords
    /\ OpenRecords = Len(df) - PrimaryRecords - MergedRecords
    /\ ret.op = "get_unmerged_issues_count" => ret.value.count = OpenRecords

\* A count of 1 was returned for a table with a Primary, a Merged and an
\* Open record.
C38_Witness ==
    /\ ret.op = "get_unmerged_issues_count"
    /\ ret.value.count = 1
    /\ PrimaryRecords = 1
    /\ MergedRecords = 1
    /\ OpenRecords = 1

=============================================================================
